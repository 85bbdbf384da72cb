---------------------------- MODULE ProviderTurn ----------------------------
(***************************************************************************)
(* One call of LlmProvider::stream (crates/agent-llm): send_with_retry     *)
(* with its backoff and the time limit on reading an error's body, then    *)
(* the stream under its idle watchdog and the parser of its wire.  The     *)
(* call belongs to one task that an executor polls when its waker has been *)
(* called; the timers are threads of their own, which the crate writes by  *)
(* hand: it does not depend on tokio.  openai.rs and anthropic.rs have the *)
(* same retry loop and the same thread_sleep.                              *)
(*                                                                         *)
(* Time is left out: a thread that sleeps may wake up at any moment, and   *)
(* has to at some.  The server is outside this repository.  It sends what  *)
(* its API says, may fall silent, and its connection may break or be       *)
(* closed anywhere.                                                        *)
(***************************************************************************)
EXTENDS SseParsers

CONSTANTS MaxRetries,  \* MAX_RETRIES
          MaxFrames,   \* bound on the frames of a stream, by the requests made
          NetRoom      \* frames on their way at a time

ASSUME BoundsAssumption == /\ MaxRetries \in Nat
                           /\ MaxFrames \in [1 .. 2 * (MaxRetries + 1) -> Nat]
                           /\ NetRoom \in Nat \ {0}

VARIABLES
  wire,      \* the API that is spoken
  phase,     \* where the call is
  options,   \* is the body sent with stream_options, or without?
  attempt,   \* attempt of send_with_retry
  answer,    \* how the last request ended
  requests,  \* history: requests made, per body
  body,      \* has the body of an error arrived?
  woken,     \* has the task's waker been called since it was last polled?
  at,        \* "parked", or "check": in a poll that has registered its waker
  slot,      \* is there a waker in the waker_slot of what is waited for?
  timer,     \* the thread of thread_sleep
  strays,    \* threads of abandoned sleeps that still hold a waker
  dog,       \* the watchdog thread
  active,    \* is there a message in its channel?
  stalled,
  terminated,
  net,       \* frames on their way
  server,    \* what the server has said of the turn
  parser,
  out,       \* events given to the consumer
  cut        \* history: how the stream was cut

request == <<options, attempt, answer, requests, body>>
task    == <<woken, at, slot>>
sleeper == <<timer, strays>>
watch   == <<dog, active, stalled, terminated>>
stream  == <<net, server, parser, out, cut>>
vars    == <<wire, phase, request, task, sleeper, watch, stream>>

Retryable == {"retry", "transport"}   \* 408, 429, 5xx; no answer at all
Answers   == Retryable \cup {"fatal", "rejected", "ok", "none"}
Bodies    == {"with", "without"}
Waiting   == {"sending", "errorbody", "asleep", "streaming"}

NoTurn == [begun |-> {}, closed |-> {}, stage |-> "calls", short |-> FALSE, counted |-> {},
           seq |-> 0, log |-> {}, frames |-> 0, gone |-> FALSE]

Init == /\ wire \in Wires
        /\ phase = "sending"
        /\ options \in (IF wire = "chat" THEN Bodies ELSE {"without"})
        /\ attempt = 1 /\ answer = "none" /\ body = FALSE
        /\ requests = [b \in Bodies |-> IF b = options THEN 1 ELSE 0]
        /\ woken = FALSE /\ at = "parked" /\ slot = FALSE
        /\ timer = "none" /\ strays = 0
        /\ dog = "none" /\ active = FALSE /\ stalled = FALSE /\ terminated = FALSE
        /\ net = <<>> /\ server = NoTurn /\ parser = NoParser /\ out = <<>> /\ cut = "none"

-----------------------------------------------------------------------------
(* send_with_retry and stream *)

(* A new thread_sleep, and the task goes on to poll it.                    *)
Sleep(place) == /\ phase' = place
                /\ timer' = "sleeping" /\ slot' = FALSE
                /\ woken' = TRUE /\ at' = "parked"

Request(b) == /\ phase' = "sending"
              /\ requests' = [requests EXCEPT ![b] = @ + 1]

RetriesLeft == ~ attempt > MaxRetries

Fail == /\ phase' = "failed" /\ timer' = "none" /\ slot' = FALSE
        /\ woken' = FALSE /\ at' = "parked"
        /\ UNCHANGED <<options, attempt, requests>>

(* stream: the same request once more, without stream_options.             *)
WithoutOptions ==
  /\ options' = "without" /\ attempt' = 1
  /\ Request("without")
  /\ timer' = "none" /\ slot' = FALSE /\ woken' = FALSE /\ at' = "parked"

(* Mutant: every error is retried.                                         *)
RetryAnything(a, known) ==
  IF RetriesLeft
  THEN /\ Sleep("asleep")
       /\ attempt' = attempt + 1
       /\ UNCHANGED <<options, requests>>
  ELSE Fail

(* What follows an answer that is no success, whose body is known or not.  *)
AfterError(a, known) ==
  IF a \in Retryable /\ RetriesLeft
  THEN /\ Sleep("asleep")
       /\ attempt' = attempt + 1
       /\ UNCHANGED <<options, requests>>
  ELSE IF a = "rejected" /\ known /\ options = "with" THEN WithoutOptions
  ELSE Fail

(* The client has no time limit for an answer.                             *)
NoConnection ==
  /\ phase = "sending"
  /\ answer' = "transport" /\ body' = FALSE
  /\ AfterError("transport", FALSE)
  /\ UNCHANGED <<wire, strays, watch, stream>>

Success ==
  /\ phase = "sending"
  /\ answer' = "ok" /\ body' = FALSE
  /\ phase' = "streaming" /\ dog' = "watching"
  /\ timer' = "none" /\ slot' = FALSE /\ woken' = TRUE /\ at' = "parked"
  /\ UNCHANGED <<wire, options, attempt, requests, strays, active, stalled, terminated, stream>>

(* Another status.  A server that knows nothing of stream_options says so  *)
(* in the body of its refusal.                                             *)
Refused(a) ==
  /\ phase = "sending"
  /\ a = "rejected" => options = "with"
  /\ answer' = a /\ body' = FALSE
  /\ Sleep("errorbody")
  /\ UNCHANGED <<wire, options, attempt, requests, strays, watch, stream>>

(* Another part of the body of an error, or its end, need never come.      *)
BodyArrives ==
  /\ phase = "errorbody" /\ ~ body
  /\ body' = TRUE
  /\ woken' = (woken \/ at = "parked")
  /\ UNCHANGED <<wire, phase, options, attempt, answer, requests, at, slot, sleeper, watch, stream>>

(* select polls the body first; the sleep it drops keeps its thread.       *)
BodyRead ==
  /\ phase = "errorbody" /\ body
  /\ at = "parked" /\ woken
  /\ strays' = IF timer = "sleeping" /\ slot THEN strays + 1 ELSE strays
  /\ AfterError(answer, TRUE)
  /\ UNCHANGED <<wire, answer, body, watch, stream>>

-----------------------------------------------------------------------------
(* Polls.  A poll puts its waker into the slot, then looks.                *)

Register ==
  /\ \/ phase \in {"asleep", "streaming"}
     \/ phase = "errorbody" /\ ~ body
  /\ at = "parked" /\ woken /\ ~ terminated
  /\ woken' = FALSE /\ slot' = TRUE /\ at' = "check"
  /\ UNCHANGED <<wire, phase, request, sleeper, watch, stream>>

Pending == /\ at' = "parked"
           /\ UNCHANGED <<wire, phase, request, woken, slot, sleeper, watch, stream>>

CheckSleep ==
  /\ phase \in {"asleep", "errorbody"} /\ at = "check"
  /\ IF timer # "done" THEN Pending
     ELSE /\ IF phase = "asleep"
             THEN /\ Request(options)
                  /\ timer' = "none" /\ slot' = FALSE /\ woken' = FALSE /\ at' = "parked"
                  /\ UNCHANGED <<options, attempt>>
             ELSE AfterError(answer, FALSE)
          /\ UNCHANGED <<wire, answer, body, strays, watch, stream>>

(* The thread of thread_sleep takes the waker and calls it before it sends *)
(* the message that the poll looks for.                                    *)
TimerWakes ==
  /\ timer = "sleeping"
  /\ timer' = "woke"
  /\ woken' = (woken \/ slot) /\ slot' = FALSE
  /\ UNCHANGED <<wire, phase, request, at, strays, watch, stream>>

TimerSends ==
  /\ timer = "woke"
  /\ timer' = "done"
  /\ UNCHANGED <<wire, phase, request, task, strays, watch, stream>>

StrayWakes ==
  /\ strays > 0
  /\ strays' = strays - 1
  /\ woken' = (woken \/ phase \in Waiting)
  /\ UNCHANGED <<wire, phase, request, at, slot, timer, watch, stream>>

-----------------------------------------------------------------------------
(* watch_sse_idle *)

DogHears ==
  /\ dog = "watching" /\ active
  /\ active' = FALSE
  /\ UNCHANGED <<wire, phase, request, task, sleeper, dog, stalled, terminated, stream>>

DogFires ==
  /\ dog = "watching" /\ ~ active
  /\ dog' = "fired" /\ stalled' = TRUE
  /\ UNCHANGED <<wire, phase, request, task, sleeper, active, terminated, stream>>

(* Mutant: nobody is woken.                                                *)
DogSleeps ==
  /\ dog = "fired"
  /\ dog' = "gone" /\ slot' = FALSE
  /\ UNCHANGED <<wire, phase, request, woken, at, sleeper, active, stalled, terminated, stream>>

DogWakes ==
  /\ dog = "fired"
  /\ dog' = "gone"
  /\ woken' = (woken \/ slot) /\ slot' = FALSE
  /\ UNCHANGED <<wire, phase, request, at, sleeper, active, stalled, terminated, stream>>

(* The stream is dropped: the channel of the watchdog is closed.           *)
DogLeaves ==
  /\ dog = "watching" /\ phase \in {"over", "dropped"}
  /\ dog' = "gone" /\ active' = FALSE
  /\ UNCHANGED <<wire, phase, request, task, sleeper, stalled, terminated, stream>>

(* The consumer gets some events and asks for more.                        *)
Give(result) == /\ parser' = result.parser
                /\ out' = out \o result.events
                /\ woken' = TRUE /\ at' = "parked"

ReadStalled ==
  /\ phase = "streaming" /\ at = "check" /\ stalled
  /\ terminated' = TRUE /\ cut' = "idle"
  /\ Give(Broken(wire, parser, "idle"))
  /\ UNCHANGED <<wire, phase, request, slot, sleeper, dog, active, stalled, net, server>>

ReadFrame ==
  /\ phase = "streaming" /\ at = "check" /\ ~ stalled
  /\ net # <<>> /\ Head(net).type # "eof"
  /\ active' = (dog = "watching")
  /\ IF Head(net).type = "broken"
     THEN Give(Broken(wire, parser, "transport")) /\ cut' = "transport"
     ELSE Give(Parse(wire, parser, Head(net))) /\ UNCHANGED cut
  /\ net' = Tail(net)
  /\ UNCHANGED <<wire, phase, request, slot, sleeper, dog, stalled, terminated, server>>

ReadNothing ==
  /\ phase = "streaming" /\ at = "check" /\ ~ stalled /\ net = <<>>
  /\ Pending

Over == /\ phase' = "over" /\ terminated' = TRUE
        /\ at' = "parked" /\ woken' = FALSE /\ slot' = FALSE
        /\ UNCHANGED <<wire, request, sleeper, dog, active, stalled, server, parser, out, cut>>

ReadEnd ==
  /\ phase = "streaming" /\ at = "check" /\ ~ stalled
  /\ net # <<>> /\ Head(net).type = "eof"
  /\ net' = Tail(net)
  /\ Over

AfterEnd ==
  /\ phase = "streaming" /\ at = "parked" /\ woken /\ terminated
  /\ UNCHANGED net
  /\ Over

(* The application drops the call, or the stream.                          *)
Drop ==
  /\ phase \in Waiting /\ at = "parked"
  /\ phase' = "dropped"
  /\ timer' = "none" /\ woken' = FALSE /\ slot' = FALSE
  /\ UNCHANGED <<wire, request, at, strays, watch, stream>>

-----------------------------------------------------------------------------
(* The server.  What it may send next, and what it has said of the turn    *)
(* when it has sent it.                                                    *)

Says(f, begun, closed, stage) ==
  [frame |-> f,
   next  |-> [server EXCEPT !.begun = begun, !.closed = closed, !.stage = stage,
                            !.short = @ \/ f.reason = Short,
                            !.counted = @ \cup ({f.usage} \cap Once)]]

Counting(f, k) == [f EXCEPT !.usage = k]

Other == {Says(Frame("other", {}, "none", 0), server.begun, server.closed, server.stage)}

InCalls == server.stage = "calls"

(* What a Chat server may count in a frame: nothing, null or the tokens so *)
(* far, and at the end of the turn, once, those of the turn.               *)
Running == {"none", "sofar"}
Final   == Running \cup ({"total"} \ server.counted)

ChatDelta(S, reason, k, stage) ==
  Says(Counting(Frame("delta", S, reason, 0), k), server.begun \cup S, server.begun \cup S, stage)

(* Deltas of text or of several calls in any order, the last frame with    *)
(* more of them, perhaps a frame with the usage, and [DONE], before which  *)
(* some servers send no finish_reason.                                     *)
ChatFrames ==
  LET b == server.begun IN
  Other
  \cup {ChatDelta(S, "none", k, "calls") :
          S \in {T \in SUBSET Calls : InCalls /\ Cardinality(T) <= 1}, k \in Running}
  \cup (UNION {{ChatDelta(S, r, k, "stopping") : r \in {Reason(b \cup S), Short}, k \in Final} :
                S \in {T \in SUBSET Calls : InCalls}})
  \cup {ChatDelta({}, "none", k, "stopping") : k \in {m \in Final : server.stage = "stopping"}}
  \cup {Says(Frame("done", {}, "none", 0), b, b, "over") :
          s \in {server.stage} \cap {"calls", "stopping"}}

(* Some servers tell a call in the final frame only, some add [DONE], some *)
(* end with [DONE] alone; a gateway may send a frame again.  The final     *)
(* frame of a turn that was cut short need not tell the calls it cut.      *)
ResponsesFrames ==
  LET b == server.begun
      n == server.seq + 1
  IN Other
     \cup {Says(Frame("added", {c}, "none", n), b \cup {c}, server.closed, "calls") :
             c \in {d \in Calls \ b : InCalls}}
     \cup {Says(Frame("item", {c}, "none", n), b, server.closed \cup {c}, "calls") :
             c \in {d \in b \ server.closed : InCalls}}
     \cup {Says(Frame("completed", S, "none", n), S, S, "stopping") :
             S \in {T \in SUBSET Calls : InCalls /\ b \subseteq T}}
     \cup {Says(Frame("completed", S, Short, n), b \cup S, S, "stopping") :
             S \in {T \in SUBSET Calls : InCalls /\ server.closed \subseteq T}}
     \cup {Says(Frame("error", {}, "none", n), b, server.closed, "failed") :
             s \in {server.stage} \cap {"calls"}}
     \cup {Says(Frame("done", {}, "none", 0), b, server.closed, "over") :
             s \in {t \in {server.stage} : t = "stopping" \/ (t = "calls" /\ b = server.closed)}}
     \cup {Says(f, b, server.closed, server.stage) : f \in server.log}

(* message_start, one block after the other, deltas that only count, one   *)
(* with the reason and perhaps the usage, and message_stop.                *)
MessagesFrames ==
  LET b == server.begun
      between == InCalls /\ b = server.closed
  IN Other
     \cup {Says(Counting(Frame("message_start", {}, "none", 0), k), b, b, "calls") :
             k \in {m \in {"start"} \ server.counted : between}}
     \cup {Says(Frame("start", {c}, "none", 0), b \cup {c}, server.closed, "calls") :
             c \in {d \in Calls \ b : between /\ \A e \in Calls \ b : d <= e}}
     \cup {Says(Frame("stop", {c}, "none", 0), b, b, "calls") : c \in b \ server.closed}
     \cup {Says(Frame("delta", {}, "none", 0), b, b, "calls") : s \in {t \in {"calls"} : between}}
     \cup {Says(Frame(t, {}, r, 0), b, b, "stopping") :
             t \in {u \in {"delta", "bare"} : between}, r \in {Reason(b), Short}}
     \cup {Says(Frame("message_stop", {}, "none", 0), b, b, "over") :
             s \in {server.stage} \cap {"stopping"}}
     \cup {Says(Frame("error", {}, "none", 0), b, server.closed,
                IF InCalls THEN "failed" ELSE "over") :
             s \in {server.stage} \cap {"calls", "stopping"}}

ServerFrames == CASE wire = "chat"      -> ChatFrames
                  [] wire = "responses" -> ResponsesFrames
                  [] wire = "messages"  -> MessagesFrames

Arrives(frames, s) ==
  /\ net' = net \o frames
  /\ server' = s
  /\ woken' = (woken \/ at = "parked")
  /\ UNCHANGED <<wire, phase, request, at, slot, sleeper, watch, parser, out, cut>>

ServerSends ==
  /\ phase = "streaming" /\ ~ server.gone
  /\ server.frames < MaxFrames[requests["with"] + requests["without"]] /\ Len(net) < NetRoom
  /\ \E say \in ServerFrames :
       LET n == say.frame.seq
       IN Arrives(<<say.frame>>,
                  [say.next EXCEPT !.frames = @ + 1,
                                   !.seq = IF n > @ THEN n ELSE @,
                                   !.log = IF n > 0 THEN @ \cup {say.frame} ELSE @])

(* After an error the byte stream ends.                                    *)
ConnectionEnds ==
  /\ phase = "streaming" /\ ~ server.gone
  /\ \E frames \in {<<Frame("eof", {}, "none", 0)>>,
                    <<Frame("broken", {}, "none", 0), Frame("eof", {}, "none", 0)>>} :
       Arrives(frames, [server EXCEPT !.gone = TRUE])

-----------------------------------------------------------------------------

Poll == Register \/ CheckSleep \/ BodyRead
          \/ ReadStalled \/ ReadFrame \/ ReadNothing \/ ReadEnd \/ AfterEnd

Watchdog == DogHears \/ DogFires \/ DogWakes \/ DogLeaves

Timer == TimerWakes \/ TimerSends

Next == Poll \/ Watchdog \/ Timer \/ StrayWakes \/ Drop
          \/ BodyArrives \/ ServerSends \/ ConnectionEnds
          \/ NoConnection \/ Success \/ \E a \in {"retry", "fatal", "rejected"} : Refused(a)

Spec == Init /\ [][Next]_vars

(* An executor polls a task that was woken, and threads run.  Nothing is   *)
(* assumed of the server.                                                  *)
Fairness == WF_vars(Poll) /\ WF_vars(Watchdog) /\ WF_vars(Timer)

FairSpec == Spec /\ Fairness

-----------------------------------------------------------------------------
(* Properties *)

(* Every variable has the values the code gives it.                        *)
TypeOK ==
  /\ wire \in Wires /\ phase \in Waiting \cup {"failed", "over", "dropped"}
  /\ options \in Bodies /\ attempt \in 1 .. MaxRetries + 1 /\ answer \in Answers
  /\ requests \in [Bodies -> Nat] /\ body \in BOOLEAN
  /\ woken \in BOOLEAN /\ at \in {"parked", "check"} /\ slot \in BOOLEAN
  /\ timer \in {"none", "sleeping", "woke", "done"} /\ strays \in Nat
  /\ dog \in {"none", "watching", "fired", "gone"}
  /\ active \in BOOLEAN /\ stalled \in BOOLEAN /\ terminated \in BOOLEAN
  /\ parser \in ParserType /\ out \in Seq(Events)
  /\ cut \in {"none", "idle", "transport"}

(* send_with_retry: a body is sent again only after an answer that may     *)
(* be retried and at most MaxRetries times, the body without               *)
(* stream_options first after a refusal of them, and nothing is sent once  *)
(* a stream has begun.                                                     *)
RequestsAreWarranted ==
  [][\A b \in Bodies : requests'[b] # requests[b] =>
       /\ requests'[b] <= MaxRetries + 1
       /\ IF requests[b] = 0 THEN b = "without" /\ answer = "rejected"
                           ELSE answer \in Retryable]_vars

(* A stop that is no failure.                                              *)
IsStopTold(i) == out[i].type = "stop" /\ out[i].reason \in Normal \cup {Short}

(* response_stop_reason: a Responses turn that was cut short and has seen  *)
(* a call stops for its tools like a complete one.                         *)
StopReason == IF server.short /\ ~ (wire = "responses" /\ server.begun # {})
              THEN Short ELSE Reason(server.begun)

(* The agent runs the tools of a turn when it stops: by then it has been   *)
(* given every call the server made, and the reason says whether there are *)
(* any and whether the turn was cut short; Chat Completions gives them in  *)
(* their order.  A Responses turn that was cut short is the exception:     *)
(* with a call it hides that it was (ShortIsTold), and only the calls of   *)
(* its own items and of the final frame are given.                         *)
CallsBeforeStop ==
  \A i \in DOMAIN out : IsStopTold(i) =>
    LET given == {j \in DOMAIN out : out[j].type = "complete"}
    IN /\ {out[j].call : j \in {k \in given : k < i}} =
            (IF wire = "responses" /\ server.short THEN server.closed ELSE server.begun)
       /\ \A j \in given : j < i
       /\ out[i].reason = StopReason
       /\ wire = "chat" => \A j, k \in given : j < k => out[j].call < out[k].call

(* No call, no final usage and no stop that is no failure is given twice,  *)
(* whatever frames come again and however the end of the turn, the end of  *)
(* the stream and the watchdog fall together; Chat Completions and         *)
(* Responses give one stop of any kind.  Counts of a turn that goes on may *)
(* come any number of times, and the output tokens of message_start are in *)
(* the count of the delta that ends the turn once more.                    *)
NothingTwice ==
  \A i, j \in DOMAIN out : i < j =>
    /\ out[i] = out[j] => out[i].reason \in Abnormal \cup {"sofar"}
    /\ ~ (IsStopTold(i) /\ IsStopTold(j))
    /\ wire \in {"chat", "responses"} => ~ (out[i].type = "stop" /\ out[j].type = "stop")

(* A stop that is no failure is given only if the server ended the turn    *)
(* (how, CallsBeforeStop says), and a stream that was cut by the           *)
(* connection or by the watchdog says so unless the turn had ended:        *)
(* is_abnormal_stop lets the caller ask again.                             *)
StopTellsTheTruth ==
  /\ (\E i \in DOMAIN out : IsStopTold(i)) => server.stage \in {"stopping", "over"}
  /\ phase = "over" /\ cut # "none" => \E i \in DOMAIN out : out[i].type = "stop"

(* What the test incomplete_due_to_length_maps_to_max_tokens says of       *)
(* Responses: a turn that was cut short is told as such.  The code does    *)
(* so only of a turn that has seen no call: see ResponseStopReason.  No    *)
(* run asks for it (README, section 6).                                    *)
ShortIsTold ==
  server.short => \A i \in DOMAIN out : IsStopTold(i) => out[i].reason = Short

(* What V-PROV-01 says of a stream: its usage comes before its end.  Where *)
(* a Chat server counts in a frame after the finish_reason, as OpenAI      *)
(* does, it comes after the stop: see ParseOneOpenAi.  No run asks for it  *)
(* (README, section 6).                                                    *)
UsageBeforeStop ==
  \A i, j \in DOMAIN out : out[i].type = "usage" /\ IsStopTold(j) => i < j

(* A stream whose server falls silent ends: the watchdog wakes the reader, *)
(* wherever its poll is.                                                   *)
StreamEnds == phase = "streaming" ~> phase # "streaming"

(* thread_sleep wakes the one who waits, so a backoff ends.  It may not:   *)
(* see TimerWakes.                                                         *)
BackoffEnds == phase = "asleep" ~> phase # "asleep"
=============================================================================
