---------------------------- MODULE HttpPipeline ----------------------------
(***************************************************************************)
(* What every request goes through, as main.ts sets it up around the       *)
(* controllers: guard, LoggingInterceptor, pipes, handler, and for what    *)
(* they throw HttpExceptionFilter or, unless it is an HttpException, the   *)
(* handler of Nest.  Each of them runs between two awaits; requests        *)
(* interleave there, in one process.                                       *)
(*                                                                         *)
(* POST /order starts the report of each order it stores without awaiting  *)
(* it.  When the query of its user fails nobody catches that, and the      *)
(* process ends with everything that is under way.                         *)
(***************************************************************************)
EXTENDS Naturals, Sequences

CONSTANTS
    Requests,
    Route       \* Route[r]: "unknown", "open", "guarded" or "order", guarded too

RouteAssumption == Route \in [Requests -> {"unknown", "open", "guarded", "order"}]

VARIABLES
    stage,      \* stage[r]: who has request r; "new" before it arrives, "over" after its answer
    thrown,     \* thrown[r]: "nothing", an "http" exception or any "other" error
    log,        \* log[r]: what was logged about r
    answer,     \* answer[r]: "none", "ok", an error in the "uniform" shape or a "plain" one
    stored,     \* stored[r]: how many orders r has committed, createOrder being called twice
    reports,    \* reports[r]: how many of their reports are under way
    alive       \* the process runs

vars == <<stage, thrown, log, answer, stored, reports, alive>>

Init ==
    /\ stage = [r \in Requests |-> "new"]
    /\ thrown = [r \in Requests |-> "nothing"]
    /\ log = [r \in Requests |-> <<>>]
    /\ answer = [r \in Requests |-> "none"]
    /\ stored = [r \in Requests |-> 0] /\ reports = [r \in Requests |-> 0]
    /\ alive = TRUE
-----------------------------------------------------------------------------
At(r, s) == alive /\ stage[r] = s
Go(r, s) == stage' = [stage EXCEPT ![r] = s]
Log(r, entry) == log' = [log EXCEPT ![r] = Append(@, entry)]

\* What is thrown before the interceptor has the request goes past it.
Throw(r, what, to) == Go(r, to) /\ thrown' = [thrown EXCEPT ![r] = what]

\* Express and the router of Nest: an unknown route or an unreadable body is an
\* HttpException, a body that is too large is not.
Arrive(r) ==
    /\ At(r, "new")
    /\ \/ \E what \in {"http", "other"} : Throw(r, what, "filter")
       \/ Route[r] = "open" /\ Go(r, "interceptor") /\ UNCHANGED thrown
       \/ Route[r] \in {"guarded", "order"} /\ Go(r, "guard") /\ UNCHANGED thrown
    /\ UNCHANGED <<log, answer, stored, reports, alive>>

\* Mutant of CanActivate: what the guard refuses is logged as if it had come in.
BugCanActivate(r) ==
    /\ At(r, "guard")
    /\ \/ Go(r, "interceptor") /\ UNCHANGED thrown
       \/ \E what \in {"http", "other"} : Throw(r, what, "logs error")
    /\ UNCHANGED <<log, answer, stored, reports, alive>>

\* Without the bypass token the guard asks passport, which knows no strategy
\* "jwt" (no module imports AuthModule) and fails with a plain error.
CanActivate(r) ==
    /\ At(r, "guard")
    /\ \/ Go(r, "interceptor") /\ UNCHANGED thrown
       \/ \E what \in {"http", "other"} : Throw(r, what, "filter")
    /\ UNCHANGED <<log, answer, stored, reports, alive>>

Intercept(r) ==
    /\ At(r, "interceptor")
    /\ Log(r, "request") /\ Go(r, "pipes")
    /\ UNCHANGED <<thrown, answer, stored, reports, alive>>

\* ValidationPipe, ParseIntPipe.
Validate(r) ==
    /\ At(r, "pipes")
    /\ \/ Go(r, "handler") /\ UNCHANGED thrown
       \/ Throw(r, "http", "logs error")
    /\ UNCHANGED <<log, answer, stored, reports, alive>>

\* createOrder: the order is committed, its report starts, the handler goes on.
Store(r) ==
    /\ At(r, "handler") /\ Route[r] = "order" /\ stored[r] < 2
    /\ stored' = [stored EXCEPT ![r] = @ + 1] /\ reports' = [reports EXCEPT ![r] = @ + 1]
    /\ UNCHANGED <<stage, thrown, log, answer, alive>>

\* The controller ends, well or not; what it stored stays.  It may also never end:
\* waiting for Redlock (Redlock.tla) or for the second of its connections.
Handle(r) ==
    /\ At(r, "handler")
    /\ \/ (Route[r] = "order" => stored[r] = 2) /\ Go(r, "logs success") /\ UNCHANGED thrown
       \/ \E what \in {"http", "other"} : Throw(r, what, "logs error")
    /\ UNCHANGED <<log, answer, stored, reports, alive>>

TapNext(r) ==
    /\ At(r, "logs success")
    /\ Log(r, "success") /\ Go(r, "over") /\ answer' = [answer EXCEPT ![r] = "ok"]
    /\ UNCHANGED <<thrown, stored, reports, alive>>

TapError(r) ==
    /\ At(r, "logs error")
    /\ Log(r, "error") /\ Go(r, "filter")
    /\ UNCHANGED <<thrown, answer, stored, reports, alive>>

\* HttpExceptionFilter: the log, a warning or an error after its status, then the answer.
Catch(r) ==
    /\ At(r, "filter") /\ thrown[r] = "http"
    /\ Log(r, "exception") /\ Go(r, "over") /\ answer' = [answer EXCEPT ![r] = "uniform"]
    /\ UNCHANGED <<thrown, stored, reports, alive>>

\* BaseExceptionFilter of Nest: "Internal server error".
CatchOther(r) ==
    /\ At(r, "filter") /\ thrown[r] = "other"
    /\ Log(r, "unhandled") /\ Go(r, "over") /\ answer' = [answer EXCEPT ![r] = "plain"]
    /\ UNCHANGED <<thrown, stored, reports, alive>>

\* The report is made, or its mail fails, which is caught.
SendOrderData(r) ==
    /\ alive /\ reports[r] > 0
    /\ reports' = [reports EXCEPT ![r] = @ - 1]
    /\ UNCHANGED <<stage, thrown, log, answer, stored, alive>>

\* findUnique is not in the try: the rejection is nobody's.
Unhandled(r) ==
    /\ alive /\ reports[r] > 0
    /\ alive' = FALSE
    /\ UNCHANGED <<stage, thrown, log, answer, stored, reports>>

Serve(r) ==
    \/ CanActivate(r) \/ Intercept(r) \/ Validate(r) \/ Store(r) \/ Handle(r)
    \/ TapNext(r) \/ TapError(r) \/ Catch(r) \/ CatchOther(r)

Next == \E r \in Requests : Arrive(r) \/ Serve(r) \/ SendOrderData(r) \/ Unhandled(r)

Spec == Init /\ [][Next]_vars
-----------------------------------------------------------------------------
Stages == {"new", "guard", "interceptor", "pipes", "handler", "logs success", "logs error", "filter", "over"}

TypeOK ==
    /\ stage \in [Requests -> Stages]
    /\ thrown \in [Requests -> {"nothing", "http", "other"}]
    /\ log \in [Requests -> Seq({"request", "success", "error", "exception", "unhandled"})]
    /\ answer \in [Requests -> {"none", "ok", "uniform", "plain"}]
    /\ stored \in [Requests -> 0..2] /\ reports \in [Requests -> 0..2] /\ alive \in BOOLEAN

\* What the log says of a request that has its answer: each failure is in it in
\* time, once where it was caught and once more where it passed the interceptor.
LogTellsAnswer == \A r \in Requests :
    CASE answer[r] = "none" -> Len(log[r]) <= 2
      [] answer[r] = "ok" -> log[r] = <<"request", "success">>
      [] answer[r] = "uniform" -> log[r] \in {<<"exception">>, <<"request", "error", "exception">>}
      [] answer[r] = "plain" -> log[r] \in {<<"unhandled">>, <<"request", "error", "unhandled">>}

\* Refuted: LoggingInterceptor, "logs all requests and responses".
EveryRequestLogged == \A r \in Requests : answer[r] # "none" => log[r][1] = "request"

\* Refuted: HttpExceptionFilter, "turns all exceptions into a uniform shape".
EveryErrorUniform == \A r \in Requests : answer[r] # "plain"
=============================================================================
