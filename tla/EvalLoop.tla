------------------------------ MODULE EvalLoop ------------------------------
(***************************************************************************)
(* EvalNode past its streams: connect to the policy server, then one       *)
(* action per tick from the pending chunk; an empty chunk is refilled by   *)
(* one inference over the websocket (or one HTTP request).  The server     *)
(* answers late, with an error, with garbage or not at all.                *)
(*                                                                         *)
(* An action is <<request, row>>: the request whose answer it came from    *)
(* and its row in the chunk.                                               *)
(***************************************************************************)
EXTENDS RunConsumer

CONSTANTS Force,         \* the control-enabled arms whose setpoint holds a measured pose
          Horizon,       \* rows of a chunk
          Replan,        \* replan_steps (0: the whole chunk)
          NumTimesteps,  \* num_timesteps
          MaxErrors,     \* max_consecutive_errors
          MaxRequests    \* bound on the inference requests of a run

ASSUME EvalAssumption == Horizon \in Nat \ {0} /\ Replan \in Nat /\ MaxErrors \in Nat \ {0}

VARIABLES
  epc,       \* "out", "connect", "top" (between ticks), "wait" (request sent)
  http,      \* the transport is AcmeHttpTransport
  dry,       \* a stream of the observation has no sample yet
  link,      \* the websocket is open (_ws is not None)
  asked,     \* requests the server has on this connection and has not answered
  wire,      \* its answers on this connection, not yet received
  req,       \* RemotePolicy._seq
  errs,      \* _consecutive_policy_errors
  held,      \* _held: the arms whose measured pose is latched
  chunk,     \* _pending
  act,       \* the action executed last
  steps      \* timesteps_done

policy == <<link, asked, wire>>
rollout == <<epc, http, dry, policy, req, errs, held, chunk, act, steps>>

NoAction == <<0, 0>>
Answers == {"chunk", "garbled", "error", "shape"}

EvalInit ==
  /\ epc = "out" /\ http = FALSE /\ dry = TRUE
  /\ link = FALSE /\ asked = <<>> /\ wire = <<>>
  /\ req = 0 /\ errs = 0 /\ held = {} /\ chunk = <<>> /\ act = NoAction /\ steps = 0

EvalGone ==
  /\ epc' = "out" /\ http' = FALSE /\ dry' = TRUE
  /\ link' = FALSE /\ asked' = <<>> /\ wire' = <<>>
  /\ req' = 0 /\ errs' = 0 /\ held' = {} /\ chunk' = <<>> /\ act' = NoAction /\ steps' = 0

EvalTypeOK ==
  /\ epc \in {"out", "connect", "top", "wait"}
  /\ http \in BOOLEAN /\ dry \in BOOLEAN /\ link \in BOOLEAN
  /\ asked \in Seq(1 .. req) /\ wire \in Seq((1 .. req) \X Answers)
  /\ req \in 0 .. MaxRequests /\ errs \in 0 .. MaxErrors /\ held \subseteq Force
  /\ chunk \in Seq((1 .. req) \X (1 .. Horizon))
  /\ act \in (0 .. req) \X (0 .. Horizon)
  /\ steps \in 0 .. NumTimesteps

----------------------------------------------------------------------------
(* The transport *)

\* Mutant: the connection survives a failed call.
KeepLink == UNCHANGED <<link, asked, wire>>

\* _drop: whatever is still on its way on this connection is gone with it.
DropLink == link' = FALSE /\ asked' = <<>> /\ wire' = <<>>

\* The server takes a request off the connection and answers it.
ServerAnswers(kind) ==
  /\ con = "serve" /\ asked # <<>>
  /\ wire' = Append(wire, <<Head(asked), kind>>) /\ asked' = Tail(asked)
  /\ UNCHANGED <<epc, http, dry, link, req, errs, held, chunk, act, steps, consumer, bus>>

\* _connect or _wait_ready: the server accepts.
ConnectPolicy(web) ==
  /\ con = "serve" /\ epc = "connect"
  /\ http' = ~web /\ link' = web /\ epc' = "top"
  /\ UNCHANGED <<dry, asked, wire, req, errs, held, chunk, act, steps, consumer, bus>>

\* Mutant: the wait for the server does not look at the stop event.
ConnectAnyway == epc = "connect" /\ ~stopping /\ EndLoop /\ UNCHANGED rollout

\* PolicyUnavailable: stopped while the server did not answer, or out of time.
PolicyUnavailable ==
  /\ epc = "connect" /\ EndLoop
  /\ UNCHANGED rollout

----------------------------------------------------------------------------
(* EvalLoop.tick *)

Ticking == con = "serve" /\ epc = "top" /\ ~stopping /\ steps < NumTimesteps

\* _execute: a setpoint to every driven arm whose setpoint can be built.
Execute(c, latched) ==
  /\ act' = Head(c) /\ chunk' = Tail(c) /\ steps' = steps + 1
  /\ PostSetpoint(sides \ (Force \ latched))

\* The pending chunk is not empty: one action of it.
NextAction ==
  /\ Ticking /\ chunk # <<>>
  /\ Execute(chunk, held)
  /\ UNCHANGED <<epc, http, dry, policy, req, errs, held>>

\* A PolicyError: the tick holds, or the budget is spent and it is raised.
PolicyFails ==
  /\ errs' = errs + 1
  /\ IF errs + 1 >= MaxErrors
     THEN EndLoop /\ UNCHANGED epc
     ELSE epc' = "top" /\ UNCHANGED <<consumer, bus>>

\* The observation is complete: latch the poses, open the link if the last call
\* dropped it, send.
Request ==
  /\ Ticking /\ chunk = <<>> /\ ~dry /\ req < MaxRequests
  /\ held' \in {held, sides \cap Force}
  /\ req' = req + 1 /\ link' = TRUE /\ asked' = Append(asked, req + 1)
  /\ epc' = "wait"
  /\ UNCHANGED <<http, dry, wire, errs, chunk, act, steps, consumer, bus>>

\* The server cannot be reached: the request is counted and not sent.
Unreachable ==
  /\ Ticking /\ chunk = <<>> /\ ~dry /\ req < MaxRequests
  /\ held' \in {held, sides \cap Force}
  /\ req' = req + 1
  /\ DropLink /\ PolicyFails
  /\ UNCHANGED <<http, dry, chunk, act, steps>>

\* No answer within infer_timeout_s, or the connection broke.
AnswerFails ==
  /\ con = "serve" /\ epc = "wait"
  /\ DropLink /\ PolicyFails
  /\ UNCHANGED <<http, dry, req, held, chunk, act, steps>>

\* The rows that are executed before the next inference.
Prefix(n) ==
  [i \in 1 .. (IF Replan > 0 /\ Replan < Horizon THEN Replan ELSE Horizon) |-> <<n, i>>]

\* What the call leaves of the connection: HTTP has one per request.
AfterAnswer == IF http THEN DropLink ELSE wire' = Tail(wire) /\ UNCHANGED <<link, asked>>

\* An answer of the right shape: the chunk is taken and its first row executed.
TakeChunk ==
  /\ con = "serve" /\ epc = "wait" /\ wire # <<>> /\ Head(wire)[2] = "chunk"
  /\ errs' = 0 /\ epc' = "top"
  /\ Execute(Prefix(Head(wire)[1]), held)
  /\ AfterAnswer
  /\ UNCHANGED <<http, dry, req, held>>

\* The adapter cannot decode the answer: a PolicyError on a healthy connection.
TakeGarbled ==
  /\ con = "serve" /\ epc = "wait" /\ wire # <<>> /\ Head(wire)[2] = "garbled"
  /\ AfterAnswer /\ PolicyFails
  /\ UNCHANGED <<http, dry, req, held, chunk, act, steps>>

\* The server's traceback: the connection is dropped.
TakeError ==
  /\ con = "serve" /\ epc = "wait" /\ wire # <<>> /\ Head(wire)[2] = "error"
  /\ DropLink /\ PolicyFails
  /\ UNCHANGED <<http, dry, req, held, chunk, act, steps>>

\* _validate_chunk raises: the rollout ends.
TakeShape ==
  /\ con = "serve" /\ epc = "wait" /\ wire # <<>> /\ Head(wire)[2] = "shape"
  /\ errs' = 0 /\ AfterAnswer /\ EndLoop
  /\ UNCHANGED <<epc, http, dry, req, held, chunk, act, steps>>

\* The loop's condition fails.
EvalEnds ==
  /\ epc = "top" /\ (stopping \/ steps = NumTimesteps) /\ EndLoop
  /\ UNCHANGED rollout

EvalStep ==
  \/ stopping /\ PolicyUnavailable
  \/ NextAction \/ Request \/ AnswerFails
  \/ TakeChunk \/ TakeGarbled \/ TakeError \/ TakeShape
  \/ EvalEnds

EvalEvent ==
  \/ \E web \in BOOLEAN : ConnectPolicy(web)
  \/ PolicyUnavailable \/ Unreachable
  \/ \E k \in Answers : ServerAnswers(k)

=============================================================================
