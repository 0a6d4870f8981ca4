----------------------------- MODULE BodyLimit -----------------------------
(***************************************************************************)
(* The ASGI middleware that refuses a request body while it is arriving      *)
(* (app/main.py, BodyLimitMiddleware).  It sits between the server, which    *)
(* hands over the body in messages and is handed a response in messages,     *)
(* and the application, which awaits both.                                   *)
(*                                                                         *)
(* The application is FastAPI and external.  Its route wants the body or     *)
(* not, and answers when it has what it wants.  What is raised while it      *)
(* reads becomes an answer of its own (FastAPI's 400) or comes out of it as  *)
(* it was, and it may fail by itself, with the middleware's own error too.   *)
(* A body message is abstracted to its size, which the client decides as it    *)
(* sends the body.                                                         *)
(***************************************************************************)
EXTENDS Integers, Sequences, SequencesExt

CONSTANTS MaxBody,     \* settings.max_request_body_bytes
          MaxSize,     \* bound: size of a body
          MaxChunks    \* bound: messages of a body

ASSUME BodyAssumption == MaxBody \in Nat
ASSUME ChunkAssumption == MaxSize \in Nat /\ MaxChunks \in Nat \ {0}

VARIABLES
  at,         \* where the request is
  reads,      \* whether the route reads the body
  size,       \* what the whole body comes to
  rest,       \* what of it is still to come
  chunks,     \* in how many messages
  received,   \* the middleware's counter
  refused,    \* the middleware's flag
  buffered,   \* bytes of the body the application holds
  raised,     \* the exception on its way through the application
  sent        \* the response messages the server was handed

vars == <<at, reads, size, rest, chunks, received, refused, buffered, raised, sent>>
bodyVars == <<reads, size, rest, chunks, received, refused, buffered>>

Place   == {"app", "handling", "answering", "returned", "raised", "refusing",
            "failed", "failing", "done"}
Error   == {"RequestTooLargeError", "other"}
Answers == {"served", "own_error", "refusal", "server_error"}
Message == {"start", "body"} \X Answers

TypeOK == /\ at \in Place
          /\ reads \in BOOLEAN /\ refused \in BOOLEAN
          /\ size \in Nat /\ rest \in Nat /\ chunks \in Nat
          /\ received \in Nat /\ buffered \in Nat
          /\ raised \in Error \union {"nothing"}
          /\ sent \in Seq(Message)

Init == /\ at = "app" /\ reads \in BOOLEAN
        /\ size \in 0..MaxSize /\ rest = size
        /\ chunks \in 1..MaxChunks
        /\ received = 0 /\ refused = FALSE /\ buffered = 0
        /\ raised = "nothing" /\ sent = <<>>

-----------------------------------------------------------------------------
(* What the middleware puts around receive and send *)

\* Seeded fault: a message is measured before it is counted.
OverLimitBefore(n) == received > MaxBody

OverLimit(n) == received + n > MaxBody

Count(n) == received' = received + n

\* The next message, of n bytes; the last one has what is left.  The message that
\* goes over the limit is counted and not handed on.
Receive(n) ==
  /\ chunks > 0 /\ chunks' = chunks - 1
  /\ (chunks = 1 => n = rest) /\ rest' = rest - n
  /\ Count(n)
  /\ IF OverLimit(n)
     THEN /\ refused' = TRUE /\ raised' = "RequestTooLargeError" /\ at' = "handling"
          /\ UNCHANGED buffered
     ELSE /\ buffered' = buffered + n
          /\ UNCHANGED <<at, refused, raised>>

Send(message) == sent' = Append(sent, message)

\* Seeded fault: the application's own answer is let through.
SendAlways(message) == Send(message)

SendUnlessRefused(message) == IF refused THEN UNCHANGED sent ELSE Send(message)

-----------------------------------------------------------------------------
(* The application *)

ReadOn == /\ at = "app" /\ reads
          /\ \E n \in 0..rest : Receive(n)
          /\ UNCHANGED <<reads, size, sent>>

\* http.disconnect in place of a body message is handed on as it is.
ClientGone == /\ at = "app" /\ reads /\ chunks > 0
              /\ at' = "handling" /\ raised' = "other"
              /\ UNCHANGED <<bodyVars, sent>>

Satisfied == at = "app" /\ (reads => chunks = 0)

Fail == /\ Satisfied
        /\ at' = "raised" /\ raised' \in Error
        /\ UNCHANGED <<bodyVars, sent>>

RaiseOn == /\ at = "handling"
           /\ at' = "raised"
           /\ UNCHANGED <<bodyVars, raised, sent>>

Answer(a) == /\ SendUnlessRefused(<<"start", a>>)
             /\ at' = "answering" /\ raised' = "nothing"
             /\ UNCHANGED bodyVars

Serve == Satisfied /\ Answer("served")

AnswerError == at = "handling" /\ Answer("own_error")

EndAnswer == /\ at = "answering"
             /\ SendUnlessRefused(<<"body", IF sent = <<>> THEN "own_error" ELSE sent[1][2]>>)
             /\ at' = "returned"
             /\ UNCHANGED <<bodyVars, raised>>

-----------------------------------------------------------------------------
(* The middleware, after the application *)

\* Seeded fault: only a refusal that came out of the application is answered.
MustRefuseIfRaised == refused /\ raised = "RequestTooLargeError"

\* Seeded fault: the error alone makes a refusal, whoever raised it.
MustRefuseByError == refused \/ raised = "RequestTooLargeError"

MustRefuse == refused /\ raised # "other"

Pass == /\ at = "returned" /\ ~MustRefuse
        /\ at' = "done"
        /\ UNCHANGED <<bodyVars, raised, sent>>

PassError == /\ at = "raised" /\ ~MustRefuse
             /\ at' = "failed"
             /\ UNCHANGED <<bodyVars, raised, sent>>

\* app_error_handler's response, sent past send_unless_refused.
Refuse == /\ at \in {"returned", "raised"} /\ MustRefuse
          /\ Send(<<"start", "refusal">>)
          /\ at' = "refusing" /\ raised' = "nothing"
          /\ UNCHANGED bodyVars

EndRefusal == /\ at = "refusing"
              /\ Send(<<"body", "refusal">>)
              /\ at' = "done"
              /\ UNCHANGED <<bodyVars, raised>>

\* Starlette's ServerErrorMiddleware, outside of all others.
ServerError == /\ at = "failed"
               /\ Send(<<"start", "server_error">>)
               /\ at' = "failing"
               /\ UNCHANGED <<bodyVars, raised>>

EndServerError == /\ at = "failing"
                  /\ Send(<<"body", "server_error">>)
                  /\ at' = "done"
                  /\ UNCHANGED <<bodyVars, raised>>

Done == at = "done" /\ UNCHANGED vars

Next == \/ ReadOn \/ ClientGone \/ Fail \/ RaiseOn
        \/ Serve \/ AnswerError \/ EndAnswer
        \/ Pass \/ PassError \/ Refuse \/ EndRefusal
        \/ ServerError \/ EndServerError
        \/ Done

\* The coroutine runs on: each await on the server is answered.
Spec == Init /\ [][Next]_vars /\ WF_vars(Next)

-----------------------------------------------------------------------------
(* Properties *)

Whole(a) == << <<"start", a>>, <<"body", a>> >>

\* What the server is handed is, at every moment, the beginning of one response,
\* and the whole of it when the request is over: the answer the application
\* gives to a refused request never gets in front of, or behind, the refusal
\* (send_unless_refused, main.py:97-104).
AnsweredOnce == \E a \in Answers : /\ IsPrefix(sent, Whole(a))
                                   /\ at = "done" => sent = Whole(a)

\* A refused body is answered by the refusal, however the application reacted
\* to it, and nothing else is: not a body within the limit, and not an error of
\* the same class that the application raised for itself (main.py:106-115).
RefusalForRefused == at = "done" =>
  /\ refused <=> sent = Whole("refusal")
  /\ refused => size > MaxBody

\* A route that reads the body never holds more of it than the limit, and
\* serves only bodies within it, in as many messages as they come (main.py:88-93).
BufferBounded == /\ buffered <= MaxBody
                 /\ at = "done" /\ reads /\ sent = Whole("served") => buffered = size

\* Every request is answered, the refused ones too: dropping the application's
\* answer never leaves the caller without one (main.py:110-115).
EveryRequestAnswered == <>(at = "done" /\ Len(sent) = 2)

=============================================================================
