---------------------------- MODULE OperationsProofs -------------------------
(***************************************************************************)
(* Proofs about what runs around the orders and payments, module           *)
(* MCOperations, part by part: the way of a request, PATCH of an order's   *)
(* status, the start of the server, the scripts with test data, and lists  *)
(* that are read by the page.  The parts share no state, so each has an    *)
(* invariant of its own, which a step of another part leaves as it is.     *)
(***************************************************************************)
EXTENDS MCOperations, SequenceTheorems, FiniteSetTheorems, TLAPS
-----------------------------------------------------------------------------
(***************************************************************************)
(* HttpPipeline.                                                           *)
(***************************************************************************)

\* The request part does what HttpPipeline does, or nothing.
LEMMA HttpPart == FairSpec => Http!Init /\ [][Http!Next]_(Http!vars)
<1>1. Init => Http!Init
  BY DEF Init
<1>2. [Next]_vars => [Http!Next]_(Http!vars)
  BY DEF Next, InStart, InScripts, InPatch, InHttp, InLists, vars, start, scripts, patch, http, lists, Http!vars
<1> QED BY <1>1, <1>2, PTL DEF FairSpec

\* What is logged of a request before it reaches a stage.
LogAt(s) ==
    CASE s \in {"new", "guard", "interceptor"} -> {<<>>}
      [] s \in {"pipes", "handler", "logs success", "logs error"} -> {<<"request">>}
      [] s = "filter" -> {<<>>, <<"request", "error">>}
      [] s = "over" -> {}

\* And after its answer.
LogOf(a) ==
    CASE a = "none" -> {}
      [] a = "ok" -> {<<"request", "success">>}
      [] a = "uniform" -> {<<"exception">>, <<"request", "error", "exception">>}
      [] a = "plain" -> {<<"unhandled">>, <<"request", "error", "unhandled">>}

LogFits(r) ==
    IF requestAt[r] = "over" THEN log[r] \in LogOf(answer[r])
    ELSE answer[r] = "none" /\ log[r] \in LogAt(requestAt[r])

HttpInv ==
    /\ Http!TypeOK
    /\ \A r \in Requests : LogFits(r) /\ reports[r] <= stored[r]

LEMMA HttpInitInv == Http!Init => HttpInv
<1> SUFFICES ASSUME Http!Init PROVE HttpInv
  OBVIOUS
<1>1. Http!TypeOK
  BY DEF Http!Init, Http!TypeOK, Http!Stages
<1>2. \A r \in Requests : LogFits(r) /\ reports[r] <= stored[r]
  BY DEF Http!Init, LogFits, LogAt
<1> QED BY <1>1, <1>2 DEF HttpInv

LEMMA Appended ==
    ASSUME NEW S, NEW a \in S, NEW b \in S, NEW e \in S
    PROVE  /\ Append(<<>>, e) = <<e>>
           /\ Append(<<a>>, e) = <<a, e>>
           /\ Append(<<a, b>>, e) = <<a, b, e>>
           /\ Len(<<>>) = 0 /\ Len(<<a>>) = 1 /\ Len(<<a, b>>) = 2
<1>1. <<>> \in Seq(S) /\ <<e>> \in Seq(S) /\ <<a>> \in Seq(S) /\ <<a, b>> \in Seq(S)
      /\ <<a, e>> \in Seq(S) /\ <<a, b, e>> \in Seq(S)
  OBVIOUS
<1>2. Len(<<>>) = 0 /\ Len(<<e>>) = 1 /\ Len(<<a>>) = 1 /\ Len(<<a, b>>) = 2 /\ Len(<<a, e>>) = 2 /\ Len(<<a, b, e>>) = 3
  OBVIOUS
<1>3. <<a>>[1] = a /\ <<e>>[1] = e /\ <<a, b>>[1] = a /\ <<a, b>>[2] = b /\ <<a, e>>[1] = a /\ <<a, e>>[2] = e
      /\ <<a, b, e>>[1] = a /\ <<a, b, e>>[2] = b /\ <<a, b, e>>[3] = e
  OBVIOUS
<1>4. Append(<<>>, e) = <<e>>
  BY <1>1, <1>2, <1>3, AppendProperties, SeqEqual
<1>5. Append(<<a>>, e) = <<a, e>>
  <2>1. Append(<<a>>, e) \in Seq(S) /\ Len(Append(<<a>>, e)) = 2 /\ Append(<<a>>, e)[1] = a /\ Append(<<a>>, e)[2] = e
    BY <1>1, <1>2, <1>3, AppendProperties
  <2>2. \A i \in 1 .. 2 : Append(<<a>>, e)[i] = <<a, e>>[i]
    BY <2>1, <1>3
  <2> QED BY <2>1, <2>2, <1>1, <1>2, SeqEqual
<1>6. Append(<<a, b>>, e) = <<a, b, e>>
  <2>1. Append(<<a, b>>, e) \in Seq(S) /\ Len(Append(<<a, b>>, e)) = 3 /\ Append(<<a, b>>, e)[1] = a /\ Append(<<a, b>>, e)[2] = b /\ Append(<<a, b>>, e)[3] = e
    BY <1>1, <1>2, <1>3, AppendProperties
  <2>2. \A i \in 1 .. 3 : Append(<<a, b>>, e)[i] = <<a, b, e>>[i]
    BY <2>1, <1>3
  <2> QED BY <2>1, <2>2, <1>1, <1>2, SeqEqual
<1> QED BY <1>2, <1>4, <1>5, <1>6

Entries == {"request", "success", "error", "exception", "unhandled"}

LEMMA EntriesAre ==
    /\ "request" \in Entries /\ "success" \in Entries /\ "error" \in Entries
    /\ "exception" \in Entries /\ "unhandled" \in Entries
BY DEF Entries

\* A stage that logs nothing.
LEMMA QuietStage ==
    ASSUME HttpInv, NEW r \in Requests, NEW s \in Http!Stages \ {"over"},
           requestAt' = [requestAt EXCEPT ![r] = s], requestAt[r] # "over",
           LogAt(requestAt[r]) \subseteq LogAt(s),
           thrown' = thrown \/ \E what \in {"http", "other"} : thrown' = [thrown EXCEPT ![r] = what],
           UNCHANGED <<log, answer, stored, reports, alive>>
    PROVE  HttpInv'
<1>1. Http!TypeOK'
  BY DEF HttpInv, Http!TypeOK
<1>2. ASSUME NEW q \in Requests PROVE LogFits(q)'
  <2>1. requestAt'[r] = s /\ (q # r => requestAt'[q] = requestAt[q]) /\ LogFits(q)
    BY DEF HttpInv, Http!TypeOK
  <2> QED BY <2>1 DEF LogFits
<1> QED BY <1>1, <1>2 DEF HttpInv

\* A stage that logs something, with an answer or without.
LEMMA LogStage ==
    ASSUME HttpInv, NEW r \in Requests, NEW s \in Http!Stages, NEW e \in Entries,
           NEW a \in {"none", "ok", "uniform", "plain"},
           requestAt' = [requestAt EXCEPT ![r] = s], requestAt[r] # "over",
           log' = [log EXCEPT ![r] = Append(@, e)], answer' = [answer EXCEPT ![r] = a],
           IF s = "over" THEN \A l \in LogAt(requestAt[r]) : Append(l, e) \in LogOf(a)
                         ELSE a = "none" /\ \A l \in LogAt(requestAt[r]) : Append(l, e) \in LogAt(s),
           UNCHANGED <<thrown, stored, reports, alive>>
    PROVE  HttpInv'
<1>1. Http!TypeOK'
  <2>1. log \in [Requests -> Seq(Entries)]
    BY DEF HttpInv, Http!TypeOK, Entries
  <2>2. log' \in [Requests -> Seq(Entries)]
    BY <2>1
  <2>3. answer' \in [Requests -> {"none", "ok", "uniform", "plain"}] /\ requestAt' \in [Requests -> Http!Stages]
    BY DEF HttpInv, Http!TypeOK
  <2> QED BY <2>2, <2>3 DEF HttpInv, Http!TypeOK, Entries
<1>2. ASSUME NEW q \in Requests PROVE LogFits(q)'
  <2>1. /\ requestAt'[r] = s /\ log'[r] = Append(log[r], e) /\ answer'[r] = a
        /\ q # r => requestAt'[q] = requestAt[q] /\ log'[q] = log[q] /\ answer'[q] = answer[q]
        /\ LogFits(q)
    BY DEF HttpInv, Http!TypeOK
  <2> QED BY <2>1 DEF LogFits
<1> QED BY <1>1, <1>2 DEF HttpInv

LEMMA HttpNextInv == HttpInv /\ [Http!Next]_(Http!vars) => HttpInv'
<1> SUFFICES ASSUME HttpInv, [Http!Next]_(Http!vars) PROVE HttpInv'
  OBVIOUS
<1> USE DEF Http!At, Http!Go, Http!Throw, Http!Stages
<1>0. ASSUME NEW r \in Requests PROVE answer \in [Requests -> {"none", "ok", "uniform", "plain"}]
                                      /\ (requestAt[r] # "over" => [answer EXCEPT ![r] = "none"] = answer)
  BY DEF HttpInv, Http!TypeOK, LogFits
<1>1. ASSUME NEW r \in Requests, Http!Arrive(r) PROVE HttpInv'
  <2>1. PICK s \in {"filter", "interceptor", "guard"} : requestAt' = [requestAt EXCEPT ![r] = s]
    BY <1>1 DEF Http!Arrive
  <2>2. requestAt[r] = "new" /\ LogAt("new") \subseteq LogAt(s)
    BY <1>1 DEF Http!Arrive, LogAt
  <2> QED BY <1>1, <2>1, <2>2, QuietStage DEF Http!Arrive
<1>2. ASSUME NEW r \in Requests, Http!CanActivate(r) PROVE HttpInv'
  <2>1. PICK s \in {"filter", "interceptor"} : requestAt' = [requestAt EXCEPT ![r] = s]
    BY <1>2 DEF Http!CanActivate
  <2>2. requestAt[r] = "guard" /\ LogAt("guard") \subseteq LogAt(s)
    BY <1>2 DEF Http!CanActivate, LogAt
  <2> QED BY <1>2, <2>1, <2>2, QuietStage DEF Http!CanActivate
<1>3. ASSUME NEW r \in Requests, Http!Validate(r) \/ Http!Handle(r) PROVE HttpInv'
  <2>1. PICK s \in {"handler", "logs error", "logs success"} : requestAt' = [requestAt EXCEPT ![r] = s]
    BY <1>3 DEF Http!Validate, Http!Handle
  <2>2. requestAt[r] \in {"pipes", "handler"} /\ LogAt(requestAt[r]) \subseteq LogAt(s)
    BY <1>3 DEF Http!Validate, Http!Handle, LogAt
  <2> QED BY <1>3, <2>1, <2>2, QuietStage DEF Http!Validate, Http!Handle
<1>4. ASSUME NEW r \in Requests, Http!Intercept(r) PROVE HttpInv'
  <2>1. \A l \in LogAt("interceptor") : Append(l, "request") \in LogAt("pipes")
    <3>1. Append(<<>>, "request") = <<"request">>
      BY Appended, EntriesAre
    <3> QED BY <3>1 DEF LogAt
  <2> QED BY <1>0, <1>4, <2>1, LogStage DEF Http!Intercept, Http!Log, Entries
<1>5. ASSUME NEW r \in Requests, Http!TapError(r) PROVE HttpInv'
  <2>1. \A l \in LogAt("logs error") : Append(l, "error") \in LogAt("filter")
    <3>1. Append(<<"request">>, "error") = <<"request", "error">>
      BY Appended, EntriesAre
    <3> QED BY <3>1 DEF LogAt
  <2> QED BY <1>0, <1>5, <2>1, LogStage DEF Http!TapError, Http!Log, Entries
<1>6. ASSUME NEW r \in Requests, Http!TapNext(r) PROVE HttpInv'
  <2>1. \A l \in LogAt("logs success") : Append(l, "success") \in LogOf("ok")
    <3>1. Append(<<"request">>, "success") = <<"request", "success">>
      BY Appended, EntriesAre
    <3> QED BY <3>1 DEF LogAt, LogOf
  <2> QED BY <1>6, <2>1, LogStage DEF Http!TapNext, Http!Log, Entries
<1>7. ASSUME NEW r \in Requests, Http!Catch(r) PROVE HttpInv'
  <2>1. \A l \in LogAt("filter") : Append(l, "exception") \in LogOf("uniform")
    <3>1. Append(<<>>, "exception") = <<"exception">> /\ Append(<<"request", "error">>, "exception") = <<"request", "error", "exception">>
      BY Appended, EntriesAre
    <3> QED BY <3>1 DEF LogAt, LogOf
  <2> QED BY <1>7, <2>1, LogStage DEF Http!Catch, Http!Log, Entries
<1>8. ASSUME NEW r \in Requests, Http!CatchOther(r) PROVE HttpInv'
  <2>1. \A l \in LogAt("filter") : Append(l, "unhandled") \in LogOf("plain")
    <3>1. Append(<<>>, "unhandled") = <<"unhandled">> /\ Append(<<"request", "error">>, "unhandled") = <<"request", "error", "unhandled">>
      BY Appended, EntriesAre
    <3> QED BY <3>1 DEF LogAt, LogOf
  <2> QED BY <1>8, <2>1, LogStage DEF Http!CatchOther, Http!Log, Entries
<1>9. ASSUME NEW r \in Requests, Http!Store(r) \/ Http!SendOrderData(r) \/ Http!Unhandled(r)
      PROVE  HttpInv'
  <2>1. requestAt' = requestAt /\ thrown' = thrown /\ log' = log /\ answer' = answer
    BY <1>9 DEF Http!Store, Http!SendOrderData, Http!Unhandled
  <2>2. /\ stored' \in [Requests -> 0 .. 2] /\ reports' \in [Requests -> 0 .. 2] /\ alive' \in BOOLEAN
        /\ \A q \in Requests : reports'[q] <= stored'[q]
    <3>0. /\ stored \in [Requests -> 0 .. 2] /\ reports \in [Requests -> 0 .. 2] /\ alive \in BOOLEAN
          /\ \A q \in Requests : reports[q] <= stored[q]
      BY DEF HttpInv, Http!TypeOK
    <3>1. CASE Http!Store(r)
      <4>1. /\ stored[r] + 1 \in 0 .. 2 /\ reports[r] + 1 \in 0 .. 2
            /\ stored' = [stored EXCEPT ![r] = stored[r] + 1]
            /\ reports' = [reports EXCEPT ![r] = reports[r] + 1] /\ alive' = alive
        BY <3>0, <3>1 DEF Http!Store
      <4> QED BY <3>0, <4>1
    <3>2. CASE Http!SendOrderData(r)
      <4>1. /\ reports[r] - 1 \in 0 .. 2
            /\ stored' = stored /\ reports' = [reports EXCEPT ![r] = reports[r] - 1] /\ alive' = alive
        BY <3>0, <3>2 DEF Http!SendOrderData
      <4> QED BY <3>0, <4>1
    <3>3. CASE Http!Unhandled(r)
      BY <3>0, <3>3 DEF Http!Unhandled
    <3> QED BY <1>9, <3>1, <3>2, <3>3
  <2> QED BY <2>1, <2>2 DEF HttpInv, Http!TypeOK, LogFits
<1>10. CASE UNCHANGED Http!vars
  BY <1>10 DEF HttpInv, Http!TypeOK, LogFits, Http!vars
<1> QED BY <1>1, <1>2, <1>3, <1>4, <1>5, <1>6, <1>7, <1>8, <1>9, <1>10 DEF Http!Next, Http!Serve

LEMMA HttpAlways == FairSpec => []HttpInv
BY HttpPart, HttpInitInv, HttpNextInv, PTL

\* However requests interleave, fail in the guard, the pipes or the handler, and
\* whether the process dies: what is logged of a request is what was answered.
THEOREM HttpLogTellsAnswer == FairSpec => []LogTellsAnswer
<1>1. HttpInv => LogTellsAnswer
  <2> SUFFICES ASSUME HttpInv, NEW r \in Requests
               PROVE  CASE answer[r] = "none" -> Len(log[r]) <= 2
                        [] answer[r] = "ok" -> log[r] = <<"request", "success">>
                        [] answer[r] = "uniform" -> log[r] \in {<<"exception">>, <<"request", "error", "exception">>}
                        [] answer[r] = "plain" -> log[r] \in {<<"unhandled">>, <<"request", "error", "unhandled">>}
    BY DEF LogTellsAnswer, Http!LogTellsAnswer
  <2>1. answer[r] \in {"none", "ok", "uniform", "plain"} /\ requestAt[r] \in Http!Stages /\ LogFits(r)
    BY DEF HttpInv, Http!TypeOK
  <2>2. CASE answer[r] = "none"
    <3>1. requestAt[r] # "over"
      BY <2>1, <2>2 DEF LogFits, LogOf
    <3>2. log[r] \in {<<>>, <<"request">>, <<"request", "error">>}
      BY <2>1, <3>1 DEF LogFits, LogAt, Http!Stages
    <3>3. \A a, b \in Entries : Len(<<a>>) = 1 /\ Len(<<a, b>>) = 2
      OBVIOUS
    <3>4. Len(<<"request">>) = 1
      BY <3>3, EntriesAre
    <3>5. Len(<<"request", "error">>) = 2
      BY <3>3, EntriesAre
    <3>6. Len(<<>>) = 0
      OBVIOUS
    <3>7. Len(log[r]) \in {0, 1, 2}
      BY <3>2, <3>4, <3>5, <3>6, Zenon
    <3>8. \A n \in {0, 1, 2} : n <= 2
      OBVIOUS
    <3>9. Len(log[r]) <= 2
      BY <3>7, <3>8, Zenon
    <3> QED BY <2>2, <3>9
  <2>3. CASE answer[r] # "none"
    <3>1. log[r] \in LogOf(answer[r])
      BY <2>1, <2>3 DEF LogFits
    <3> QED BY <2>1, <2>3, <3>1 DEF LogOf
  <2> QED BY <2>2, <2>3
<1> QED BY <1>1, HttpAlways, PTL
-----------------------------------------------------------------------------
(***************************************************************************)
(* OrderStatus.                                                            *)
(***************************************************************************)

\* The calls of updateOrderStatus do what OrderStatus does, or nothing.
LEMMA PatchPart == FairSpec => Patch!Init /\ [][Patch!Next]_(Patch!vars)
<1>1. Init => Patch!Init
  BY DEF Init
<1>2. [Next]_vars => [Patch!Next]_(Patch!vars)
  BY DEF Next, InStart, InScripts, InPatch, InHttp, InLists, vars, start, scripts, patch, http, lists,
         Patch!vars
<1> QED BY <1>1, <1>2, PTL DEF FairSpec

Writing == {"update", "emit", "commit"}

\* Status s is what order o was created with, or a call other than c has made it.
MadeBut(s, o, c) ==
    s = "PENDING" \/ \E v \in Patch!Written : v.call # c /\ OrderOf[v.call] = o /\ v.status = s

\* Only orders that are there are written, by a call that has come so far; what is
\* emitted next has been written.
WritesOwn ==
    /\ \A c \in Calls : callAt[c] \in Writing => OrderOf[c] \in Stored
    /\ \A c \in Calls : callAt[c] \in {"idle", "find"} => \A v \in Patch!Written : v.call # c
    /\ \A c \in Calls : callAt[c] = "emit" => Patch!Message(c) \in Patch!Written
    /\ \A v \in Patch!Written : OrderOf[v.call] \in Stored

\* Without payments, a status and what was read of it go back to the calls.
ReadIsMade == payments = 0 =>
    /\ \A o \in Stored : status[o] = "PENDING" \/ \E v \in Patch!Written :
           OrderOf[v.call] = o /\ v.status = status[o]
    /\ \A c \in Calls : callAt[c] = "update" => MadeBut(read[c], OrderOf[c], c)
    /\ \A v \in Patch!Written : MadeBut(v.previous, OrderOf[v.call], v.call)

PatchInv == Patch!TypeOK /\ WritesOwn /\ Patch!ToldIsWritten /\ ReadIsMade

LEMMA PatchInitInv == Patch!Init => PatchInv
<1> SUFFICES ASSUME Patch!Init PROVE PatchInv
  OBVIOUS
<1>1. Patch!Written = {} /\ Patch!Messages = {}
  BY DEF Patch!Init, Patch!Written, Patch!Messages
<1>2. Patch!TypeOK
  BY <1>1, OperationsAssumption DEF Patch!Init, Patch!TypeOK, Patch!OrdersAssumption, Patch!BoundsAssumption
<1>3. WritesOwn /\ Patch!ToldIsWritten /\ ReadIsMade
  BY <1>1 DEF Patch!Init, WritesOwn, Patch!ToldIsWritten, ReadIsMade, Writing
<1> QED BY <1>2, <1>3 DEF PatchInv

\* A step that writes nothing and gives Kafka nothing.
LEMMA PatchQuiet ==
    ASSUME PatchInv, NEW c \in Calls,
           NEW at1 \in {"idle", "find", "update", "emit", "commit", "done", "failed"},
           callAt' = [callAt EXCEPT ![c] = at1],
           at1 \in {"idle", "find"} => callAt[c] \in {"idle", "find"},
           at1 \in Writing => OrderOf[c] \in Stored, at1 # "emit",
           read' \in [Calls -> Status], \A d \in Calls : d # c => read'[d] = read[d],
           callAt[c] \in {"emit", "commit", "done", "failed"} => read' = read,
           at1 = "update" /\ payments = 0 => MadeBut(read'[c], OrderOf[c], c),
           statusFailures' \in 0 .. MaxErrors,
           Patch!Messages' \subseteq Patch!Messages, UNCHANGED <<lost, status, wrote, payments>>
    PROVE  PatchInv'
<1>1. /\ Patch!Written' = Patch!Written /\ callAt'[c] = at1
      /\ \A d \in Calls : d # c => callAt'[d] = callAt[d]
      /\ \A s, o, d : MadeBut(s, o, d)' <=> MadeBut(s, o, d)
  BY DEF PatchInv, Patch!TypeOK, Patch!Written, MadeBut
<1>2. Patch!TypeOK'
  BY <1>1 DEF PatchInv, Patch!TypeOK
<1>3. WritesOwn'
  BY <1>1 DEF PatchInv, WritesOwn, Patch!Message
<1>4. Patch!ToldIsWritten'
  BY <1>1 DEF PatchInv, Patch!ToldIsWritten
<1>5. ReadIsMade'
  BY <1>1 DEF PatchInv, ReadIsMade
<1> QED BY <1>2, <1>3, <1>4, <1>5 DEF PatchInv

\* A write, after which the call goes on or fails.
LEMMA PatchWrite ==
    ASSUME PatchInv, NEW c \in Calls, callAt[c] = "update", Patch!Write(c),
           NEW at1 \in {"emit", "failed"}, callAt' = [callAt EXCEPT ![c] = at1],
           statusFailures' \in 0 .. MaxErrors, UNCHANGED <<read, transit, topic, lost, payments>>
    PROVE  PatchInv'
<1>1. /\ Patch!Written' = Patch!Written \union {Patch!Message(c)}
      /\ Patch!Messages' = Patch!Messages
  <2> DEFINE w == [message |-> Patch!Message(c), replaced |-> status[OrderOf[c]]]
  <2>1. wrote' = wrote \union {w} /\ w.message = Patch!Message(c)
    BY DEF Patch!Write
  <2> HIDE DEF w
  <2>2. Patch!Written' = Patch!Written \union {Patch!Message(c)}
    BY <2>1 DEF Patch!Written
  <2> QED BY <2>2 DEF Patch!Messages
<1>2. /\ Patch!Message(c) \in [call : Calls, status : Status, previous : Status]
      /\ Patch!Message(c).call = c /\ Patch!Message(c).status = To[c] /\ Patch!Message(c).previous = read[c]
      /\ Patch!Message(c)' = Patch!Message(c)
  BY OperationsAssumption DEF PatchInv, Patch!TypeOK, Patch!Message, Patch!CallsAssumption
<1>3. /\ callAt'[c] = at1 /\ \A d \in Calls : d # c => callAt'[d] = callAt[d]
      /\ OrderOf[c] \in Stored /\ status' = [status EXCEPT ![OrderOf[c]] = To[c]]
  BY DEF PatchInv, Patch!TypeOK, WritesOwn, Writing, Patch!Write
<1>4. Patch!TypeOK'
  <2>1. \A w \in wrote' : w.replaced \in Status
    BY <1>3 DEF PatchInv, Patch!TypeOK, Patch!Write
  <2>2. status' \in [Stored -> Status]
    BY <1>3, OperationsAssumption DEF PatchInv, Patch!TypeOK, Patch!CallsAssumption
  <2> QED BY <1>1, <1>2, <1>3, <2>1, <2>2 DEF PatchInv, Patch!TypeOK
<1>5. WritesOwn'
  BY <1>1, <1>2, <1>3 DEF PatchInv, WritesOwn, Writing, Patch!Message
<1>6. Patch!ToldIsWritten'
  BY <1>1 DEF PatchInv, Patch!ToldIsWritten
<1>7. \A s, o, d : MadeBut(s, o, d) => MadeBut(s, o, d)'
  BY <1>1 DEF MadeBut
<1>8. ReadIsMade'
  <2> SUFFICES ASSUME payments = 0
               PROVE  /\ \A o \in Stored : status'[o] = "PENDING" \/ \E v \in Patch!Written' :
                             OrderOf[v.call] = o /\ v.status = status'[o]
                      /\ \A d \in Calls : callAt'[d] = "update" => MadeBut(read[d], OrderOf[d], d)'
                      /\ \A v \in Patch!Written' : MadeBut(v.previous, OrderOf[v.call], v.call)'
    BY DEF ReadIsMade, MadeBut
  <2>1. ASSUME NEW o \in Stored
        PROVE  status'[o] = "PENDING" \/ \E v \in Patch!Written' : OrderOf[v.call] = o /\ v.status = status'[o]
    <3>1. CASE o = OrderOf[c]
      BY <1>1, <1>2, <1>3, <3>1 DEF PatchInv, Patch!TypeOK
    <3>2. CASE o # OrderOf[c]
      <4>1. status'[o] = status[o]
        BY <1>3, <3>2 DEF PatchInv, Patch!TypeOK
      <4> QED BY <1>1, <4>1 DEF PatchInv, ReadIsMade
    <3> QED BY <3>1, <3>2
  <2>2. ASSUME NEW d \in Calls, callAt'[d] = "update" PROVE MadeBut(read[d], OrderOf[d], d)'
    <3>1. MadeBut(read[d], OrderOf[d], d) /\ read'[d] = read[d]
      BY <1>3, <2>2 DEF PatchInv, ReadIsMade
    <3>2. PICK s : s = read[d]
      OBVIOUS
    <3> QED BY <1>7, <3>1, <3>2
  <2>3. ASSUME NEW v \in Patch!Written' PROVE MadeBut(v.previous, OrderOf[v.call], v.call)'
    <3>1. v \in Patch!Written => MadeBut(v.previous, OrderOf[v.call], v.call)
      BY DEF PatchInv, ReadIsMade
    <3>2. v = Patch!Message(c) => MadeBut(v.previous, OrderOf[v.call], v.call)
      BY <1>2 DEF PatchInv, ReadIsMade
    <3> QED BY <1>1, <1>7, <3>1, <3>2
  <2> QED BY <2>1, <2>2, <2>3
<1> QED BY <1>4, <1>5, <1>6, <1>8 DEF PatchInv

LEMMA PatchNextInv == PatchInv /\ [Patch!Next]_(Patch!vars) => PatchInv'
<1> SUFFICES ASSUME PatchInv, [Patch!Next]_(Patch!vars) PROVE PatchInv'
  OBVIOUS
<1>0. /\ read \in [Calls -> Status] /\ statusFailures \in 0 .. MaxErrors /\ OrderOf \in [Calls -> Orders]
      /\ (statusFailures < MaxErrors => statusFailures + 1 \in 0 .. MaxErrors)
      /\ payments \in Nat
      /\ \A c \in Calls : callAt[c] \in Writing => OrderOf[c] \in Stored
  BY OperationsAssumption DEF PatchInv, WritesOwn, Patch!TypeOK, Patch!BoundsAssumption, Patch!CallsAssumption
<1> USE DEF Patch!Goes, Patch!client
<1>1. ASSUME NEW c \in Calls, Patch!Call(c) PROVE PatchInv'
  <2>1. Patch!Messages' = Patch!Messages
    BY <1>1 DEF Patch!Call, Patch!Messages
  <2> QED BY <1>0, <1>1, <2>1, PatchQuiet DEF Patch!Call, Writing
<1>2. ASSUME NEW c \in Calls, Patch!FindOrderById(c) PROVE PatchInv'
  <2>1. Patch!Messages' = Patch!Messages
    BY <1>2 DEF Patch!FindOrderById, Patch!Messages
  <2>2. CASE OrderOf[c] \in Stored
    <3>1. read' = [read EXCEPT ![c] = status[OrderOf[c]]] /\ read'[c] = status[OrderOf[c]]
          /\ read' \in [Calls -> Status]
      BY <1>0, <1>2, <2>2 DEF Patch!FindOrderById, PatchInv, Patch!TypeOK
    <3>2. payments = 0 => MadeBut(read'[c], OrderOf[c], c)
      BY <1>2, <2>2, <3>1 DEF PatchInv, ReadIsMade, WritesOwn, MadeBut, Patch!FindOrderById
    <3>3. \A d \in Calls : d # c => read'[d] = read[d]
      BY <1>0, <3>1
    <3> QED BY <1>0, <1>2, <2>1, <2>2, <3>1, <3>2, <3>3, PatchQuiet DEF Patch!FindOrderById
  <2>3. CASE OrderOf[c] \notin Stored
    BY <1>0, <1>2, <2>1, <2>3, PatchQuiet DEF Patch!FindOrderById, Writing
  <2> QED BY <2>2, <2>3
<1>3. ASSUME NEW c \in Calls, Patch!UpdateOrderStatus(c) PROVE PatchInv'
  BY <1>0, <1>3, PatchWrite DEF Patch!UpdateOrderStatus
<1>4. ASSUME NEW c \in Calls, Patch!Emit(c) PROVE PatchInv'
  <2>1. /\ Patch!Messages' = Patch!Messages \union {Patch!Message(c)} /\ Patch!Written' = Patch!Written
        /\ UNCHANGED <<status, read, topic, lost, wrote, statusFailures, payments>>
    BY <1>4 DEF Patch!Emit, Patch!Send, Patch!Messages, Patch!Written
  <2>2. Patch!Message(c) \in Patch!Written /\ Patch!Message(c).call = c /\ OrderOf[c] \in Stored
    BY <1>0, <1>4 DEF Patch!Emit, Patch!Ready, PatchInv, WritesOwn, Writing, Patch!Message
  <2>3. /\ callAt'[c] = "commit" /\ \A d \in Calls : d # c => callAt'[d] = callAt[d]
        /\ callAt[c] = "emit"
    BY <1>4 DEF Patch!Emit, Patch!Ready, PatchInv, Patch!TypeOK
  <2>4. Patch!TypeOK'
    BY <1>4, <2>1, <2>2 DEF Patch!Emit, PatchInv, Patch!TypeOK
  <2>5. WritesOwn'
    BY <2>1, <2>2, <2>3 DEF PatchInv, WritesOwn, Writing, Patch!Message
  <2>6. Patch!ToldIsWritten'
    BY <2>1, <2>2 DEF PatchInv, Patch!ToldIsWritten
  <2>7. ReadIsMade'
    BY <2>1, <2>3 DEF PatchInv, ReadIsMade, MadeBut
  <2> QED BY <2>4, <2>5, <2>6, <2>7 DEF PatchInv
<1>5. ASSUME NEW c \in Calls, Patch!Commit(c) PROVE PatchInv'
  <2>1. Patch!Messages' = Patch!Messages
    BY <1>5 DEF Patch!Commit, Patch!Messages
  <2> QED BY <1>0, <1>5, <2>1, PatchQuiet DEF Patch!Commit, Writing
<1>6. ASSUME NEW c \in Calls, Patch!Fail(c) PROVE PatchInv'
  <2>1. Patch!Messages' = Patch!Messages /\ statusFailures' \in 0 .. MaxErrors
    BY <1>0, <1>6 DEF Patch!Fail, Patch!Messages
  <2>2. CASE callAt[c] = "update" /\ Patch!Write(c)
    BY <1>6, <2>1, <2>2, PatchWrite DEF Patch!Fail
  <2>3. CASE UNCHANGED <<status, wrote>>
    BY <1>0, <1>6, <2>1, <2>3, PatchQuiet DEF Patch!Fail, Writing
  <2> QED BY <1>6, <2>2, <2>3 DEF Patch!Fail
<1>7. ASSUME Patch!Crash PROVE PatchInv'
  <2>1. /\ Patch!Messages' \subseteq Patch!Messages /\ Patch!Written' = Patch!Written
        /\ statusFailures' \in 0 .. MaxErrors /\ lost' \subseteq lost \union Patch!Messages
        /\ \A c \in Calls : callAt'[c] = "failed" \/ callAt'[c] = callAt[c]
    BY <1>0, <1>7 DEF Patch!Crash, Patch!Messages, Patch!Written
  <2>2. UNCHANGED <<status, read, topic, wrote, payments>>
    BY <1>7 DEF Patch!Crash
  <2>3. Patch!TypeOK'
    BY <1>7, <2>1, <2>2 DEF Patch!Crash, PatchInv, Patch!TypeOK
  <2>4. WritesOwn'
    BY <2>1, <2>2 DEF PatchInv, WritesOwn, Writing, Patch!Message
  <2>5. Patch!ToldIsWritten'
    BY <2>1 DEF PatchInv, Patch!ToldIsWritten
  <2>6. ReadIsMade'
    BY <2>1, <2>2 DEF PatchInv, ReadIsMade, MadeBut
  <2> QED BY <2>3, <2>4, <2>5, <2>6 DEF PatchInv
<1>8. ASSUME NEW m \in transit, Patch!Deliver(m) \/ Patch!Lose(m) PROVE PatchInv'
  <2>1. /\ Patch!Messages' \subseteq Patch!Messages /\ Patch!Written' = Patch!Written
        /\ statusFailures' \in 0 .. MaxErrors /\ lost' \subseteq lost \union Patch!Messages
    BY <1>0, <1>8 DEF Patch!Deliver, Patch!Lose, Patch!Messages, Patch!Written
  <2>2. UNCHANGED <<status, callAt, read, wrote, payments>>
    BY <1>8 DEF Patch!Deliver, Patch!Lose
  <2>3. Patch!TypeOK'
    BY <2>1, <2>2 DEF PatchInv, Patch!TypeOK
  <2>4. WritesOwn'
    BY <2>1, <2>2 DEF PatchInv, WritesOwn, Writing, Patch!Message
  <2>5. Patch!ToldIsWritten'
    BY <2>1 DEF PatchInv, Patch!ToldIsWritten
  <2>6. ReadIsMade'
    BY <2>1, <2>2 DEF PatchInv, ReadIsMade, MadeBut
  <2> QED BY <2>3, <2>4, <2>5, <2>6 DEF PatchInv
<1>9. ASSUME NEW o \in Stored, Patch!Pay(o) PROVE PatchInv'
  <2>1. /\ UNCHANGED <<callAt, read, transit, topic, lost, wrote, statusFailures>>
        /\ payments' = payments + 1 /\ payments < MaxPayments
    BY <1>9 DEF Patch!Pay
  <2>2. Patch!Messages' = Patch!Messages /\ Patch!Written' = Patch!Written
    BY <2>1 DEF Patch!Messages, Patch!Written
  <2>3. Patch!TypeOK'
    BY <1>9, <2>1, <2>2, OperationsAssumption
       DEF Patch!Pay, PatchInv, Patch!TypeOK, Patch!BoundsAssumption, Patch!OrdersAssumption
  <2>4. WritesOwn'
    BY <2>1, <2>2 DEF PatchInv, WritesOwn, Patch!Message
  <2>5. Patch!ToldIsWritten'
    BY <2>2 DEF PatchInv, Patch!ToldIsWritten
  <2>6. ReadIsMade'
    BY <1>0, <2>1 DEF ReadIsMade
  <2> QED BY <2>3, <2>4, <2>5, <2>6 DEF PatchInv
<1>10. CASE UNCHANGED Patch!vars
  <2>1. UNCHANGED <<status, callAt, read, transit, topic, lost, wrote, statusFailures, payments>>
    BY <1>10 DEF Patch!vars
  <2>2. Patch!Messages' = Patch!Messages /\ Patch!Written' = Patch!Written
    BY <2>1 DEF Patch!Messages, Patch!Written
  <2> QED BY <2>1, <2>2 DEF PatchInv, Patch!TypeOK, WritesOwn, ReadIsMade, MadeBut, Patch!ToldIsWritten, Patch!Message
<1> QED BY <1>1, <1>2, <1>3, <1>4, <1>5, <1>6, <1>7, <1>8, <1>9, <1>10 DEF Patch!Next, Patch!Go

LEMMA PatchAlways == FairSpec => []PatchInv
BY PatchPart, PatchInitInv, PatchNextInv, PTL

\* However calls for the same order interleave, fail and crash, and whatever Kafka
\* loses or reorders: a message tells of a write that was made, and of a status
\* before it that was there.
THEOREM PatchMessagesAreTrue == FairSpec => []MessagesAreTrue
<1>1. PatchInv => MessagesAreTrue
  <2> SUFFICES ASSUME PatchInv PROVE MessagesAreTrue
    OBVIOUS
  <2>1. Patch!ToldIsWritten
    BY DEF PatchInv
  <2>2. ASSUME payments = 0, NEW m \in Patch!Messages
        PROVE  m.previous \in {"PENDING"} \union
                   {w.status : w \in {v \in Patch!Written : v.call # m.call /\ OrderOf[v.call] = OrderOf[m.call]}}
    BY <2>1, <2>2 DEF PatchInv, ReadIsMade, MadeBut, Patch!ToldIsWritten
  <2> QED BY <2>1, <2>2 DEF MessagesAreTrue, Patch!PreviousWasThere
<1> QED BY <1>1, PatchAlways, PTL
-----------------------------------------------------------------------------
(***************************************************************************)
(* Bootstrap.                                                              *)
(***************************************************************************)

LEMMA Joined ==
    ASSUME NEW a, NEW b, NEW c, NEW d, NEW e, NEW f, NEW g
    PROVE  <<a, b, c>> \o <<d, e, f>> \o <<g>> = <<a, b, c, d, e, f, g>>
<1> DEFINE S == {a, b, c, d, e, f, g}
           s == <<a, b, c>>
           t == <<d, e, f>>
           u == <<g>>
           all == <<a, b, c, d, e, f, g>>
<1>1. s \in Seq(S) /\ t \in Seq(S) /\ u \in Seq(S) /\ all \in Seq(S)
  <2> a \in S /\ b \in S /\ c \in S /\ d \in S /\ e \in S /\ f \in S /\ g \in S
    OBVIOUS
  <2> HIDE DEF S
  <2> QED OBVIOUS
<1>2. /\ Len(s) = 3 /\ s[1] = a /\ s[2] = b /\ s[3] = c
      /\ Len(t) = 3 /\ t[1] = d /\ t[2] = e /\ t[3] = f
      /\ Len(u) = 1 /\ u[1] = g
      /\ Len(all) = 7 /\ all[1] = a /\ all[2] = b /\ all[3] = c /\ all[4] = d /\ all[5] = e
      /\ all[6] = f /\ all[7] = g
  OBVIOUS
<1> HIDE DEF S, s, t, u, all
<1>3. /\ s \o t \in Seq(S) /\ Len(s \o t) = 6
      /\ \A i \in 1 .. 6 : (s \o t)[i] = IF i <= 3 THEN s[i] ELSE t[i - 3]
  <2>1. /\ s \o t \in Seq(S) /\ Len(s \o t) = Len(s) + Len(t)
        /\ \A i \in 1 .. Len(s) + Len(t) : (s \o t)[i] = IF i <= Len(s) THEN s[i] ELSE t[i - Len(s)]
    BY <1>1, ConcatProperties
  <2> QED BY <1>2, <2>1
<1>4. /\ (s \o t) \o u \in Seq(S) /\ Len((s \o t) \o u) = 7
      /\ \A i \in 1 .. 7 : ((s \o t) \o u)[i] = IF i <= 6 THEN (s \o t)[i] ELSE u[i - 6]
  <2> DEFINE v == s \o t
  <2> HIDE DEF v
  <2>0. v \in Seq(S) /\ Len(v) = 6
    BY <1>3 DEF v
  <2>1. /\ v \o u \in Seq(S) /\ Len(v \o u) = Len(v) + Len(u)
        /\ \A i \in 1 .. Len(v) + Len(u) : (v \o u)[i] = IF i <= Len(v) THEN v[i] ELSE u[i - Len(v)]
    BY <1>1, <2>0, ConcatProperties
  <2>2. \A i \in 1 .. 7 : (v \o u)[i] = IF i <= 6 THEN v[i] ELSE u[i - 6]
    BY <1>2, <2>0, <2>1
  <2> QED BY <1>2, <2>0, <2>1, <2>2 DEF v
<1>5. \A i \in 1 .. 7 : ((s \o t) \o u)[i] = all[i]
  BY <1>2, <1>3, <1>4
<1>6. (s \o t) \o u = all
  BY <1>1, <1>2, <1>4, <1>5, SeqEqual
<1> QED BY <1>6 DEF s, t, u, all

Refs(t) == Boot!Seed[t].refs

\* The references of the seed, createMany by createMany.
LEMMA SeedRefs ==
    /\ Len(Boot!Seed) = 7 /\ Boot!Tables = 1 .. 7
    /\ Refs(1) = <<{}, {}, {}>>
    /\ Refs(2) = <<{}, {}>>
    /\ Refs(3) = <<{<<2, 1>>}, {<<2, 2>>}>>
    /\ Refs(4) = <<{}, {}, {}>>
    /\ Refs(5) = <<{<<4, 1>>}, {<<4, 1>>}, {<<4, 1>>}, {<<4, 2>>}, {<<4, 2>>}, {<<4, 2>>}, {<<4, 3>>}, {<<4, 3>>}>>
    /\ Refs(6) = <<{<<4, 1>>}, {<<4, 1>>, <<5, 1>>}, {<<4, 2>>}, {<<4, 2>>, <<5, 4>>}, {<<4, 3>>}>>
    /\ Refs(7) = <<{<<1, 1>>}, {<<1, 2>>}, {<<1, 3>>}>>
<1> DEFINE a == [name |-> "userAccount", unique |-> TRUE,
                 refs |-> <<{}, {}, {}>>]
           b == [name |-> "coupon", unique |-> FALSE,
                 refs |-> <<{}, {}>>]
           c == [name |-> "fcfsCoupon", unique |-> FALSE,
                 refs |-> <<{<<2, 1>>}, {<<2, 2>>}>>]
           d == [name |-> "product", unique |-> FALSE,
                 refs |-> <<{}, {}, {}>>]
           e == [name |-> "productVariant", unique |-> TRUE,
                 refs |-> <<{<<4, 1>>}, {<<4, 1>>}, {<<4, 1>>}, {<<4, 2>>}, {<<4, 2>>}, {<<4, 2>>}, {<<4, 3>>}, {<<4, 3>>}>>]
           f == [name |-> "productImage", unique |-> FALSE,
                 refs |-> <<{<<4, 1>>}, {<<4, 1>>, <<5, 1>>}, {<<4, 2>>}, {<<4, 2>>, <<5, 4>>}, {<<4, 3>>}>>]
           g == [name |-> "userBalance", unique |-> TRUE,
                 refs |-> <<{<<1, 1>>}, {<<1, 2>>}, {<<1, 3>>}>>]
<1>1. Boot!UsersAndCoupons = <<a, b, c>> /\ Boot!Catalogue = <<d, e, f>> /\ Boot!Balances = <<g>>
  BY DEF Boot!UsersAndCoupons, Boot!Catalogue, Boot!Balances
<1>2. /\ a.refs = <<{}, {}, {}>>
      /\ b.refs = <<{}, {}>>
      /\ c.refs = <<{<<2, 1>>}, {<<2, 2>>}>>
      /\ d.refs = <<{}, {}, {}>>
      /\ e.refs = <<{<<4, 1>>}, {<<4, 1>>}, {<<4, 1>>}, {<<4, 2>>}, {<<4, 2>>}, {<<4, 2>>}, {<<4, 3>>}, {<<4, 3>>}>>
      /\ f.refs = <<{<<4, 1>>}, {<<4, 1>>, <<5, 1>>}, {<<4, 2>>}, {<<4, 2>>, <<5, 4>>}, {<<4, 3>>}>>
      /\ g.refs = <<{<<1, 1>>}, {<<1, 2>>}, {<<1, 3>>}>>
  OBVIOUS
<1> HIDE DEF a, b, c, d, e, f, g
<1>4. Boot!Seed = <<a, b, c, d, e, f, g>>
  BY <1>1, Joined DEF Boot!Seed
<1>5. LET all == <<a, b, c, d, e, f, g>> IN
      /\ Len(all) = 7 /\ DOMAIN all = 1 .. 7
      /\ all[1] = a /\ all[2] = b /\ all[3] = c /\ all[4] = d /\ all[5] = e /\ all[6] = f /\ all[7] = g
  OBVIOUS
<1>6. Boot!Tables = DOMAIN Boot!Seed
  BY DEF Boot!Tables
<1> QED BY <1>2, <1>4, <1>5, <1>6 DEF Refs

\* What matters of it: each refers to rows of statements before it.
LEMMA SeedFacts ==
    /\ Len(Boot!Seed) = 7 /\ Boot!Tables = 1 .. 7
    /\ \A t \in 1 .. 7 :
           /\ Len(Boot!Seed[t].refs) \in Nat \ {0}
           /\ Boot!Rows(t) = 1 .. Len(Boot!Seed[t].refs)
           /\ \A k \in Boot!Rows(t) : \A r \in Boot!Seed[t].refs[k] :
                  r[1] \in 1 .. 7 /\ r[1] < t /\ r[2] \in Boot!Rows(r[1])
<1>1. /\ Boot!Rows(1) = 1 .. 3 /\ Boot!Rows(2) = 1 .. 2 /\ Boot!Rows(3) = 1 .. 2 /\ Boot!Rows(4) = 1 .. 3
      /\ Boot!Rows(5) = 1 .. 8 /\ Boot!Rows(6) = 1 .. 5 /\ Boot!Rows(7) = 1 .. 3
  BY SeedRefs DEF Boot!Rows, Refs
<1>2. /\ Len(Refs(1)) = 3 /\ Len(Refs(2)) = 2 /\ Len(Refs(3)) = 2 /\ Len(Refs(4)) = 3
      /\ Len(Refs(5)) = 8 /\ Len(Refs(6)) = 5 /\ Len(Refs(7)) = 3
  BY SeedRefs
<1>3. ASSUME NEW t \in 1 .. 7
      PROVE  Len(Refs(t)) \in Nat \ {0} /\ Boot!Rows(t) = 1 .. Len(Refs(t))
  <2>1. t = 1 \/ t = 2 \/ t = 3 \/ t = 4 \/ t = 5 \/ t = 6 \/ t = 7
    OBVIOUS
  <2>2. ASSUME NEW n \in Nat \ {0}, Boot!Rows(t) = 1 .. n, Len(Refs(t)) = n
        PROVE  Len(Refs(t)) \in Nat \ {0} /\ Boot!Rows(t) = 1 .. Len(Refs(t))
    BY <2>2
  <2>3. CASE t = 1
    <3>1. Boot!Rows(t) = 1 .. 3 /\ Len(Refs(t)) = 3
      BY <1>1, <1>2, <2>3, Zenon
    <3> QED BY <2>2, <3>1
  <2>4. CASE t = 2
    <3>1. Boot!Rows(t) = 1 .. 2 /\ Len(Refs(t)) = 2
      BY <1>1, <1>2, <2>4, Zenon
    <3> QED BY <2>2, <3>1
  <2>5. CASE t = 3
    <3>1. Boot!Rows(t) = 1 .. 2 /\ Len(Refs(t)) = 2
      BY <1>1, <1>2, <2>5, Zenon
    <3> QED BY <2>2, <3>1
  <2>6. CASE t = 4
    <3>1. Boot!Rows(t) = 1 .. 3 /\ Len(Refs(t)) = 3
      BY <1>1, <1>2, <2>6, Zenon
    <3> QED BY <2>2, <3>1
  <2>7. CASE t = 5
    <3>1. Boot!Rows(t) = 1 .. 8 /\ Len(Refs(t)) = 8
      BY <1>1, <1>2, <2>7, Zenon
    <3> QED BY <2>2, <3>1
  <2>8. CASE t = 6
    <3>1. Boot!Rows(t) = 1 .. 5 /\ Len(Refs(t)) = 5
      BY <1>1, <1>2, <2>8, Zenon
    <3> QED BY <2>2, <3>1
  <2>9. CASE t = 7
    <3>1. Boot!Rows(t) = 1 .. 3 /\ Len(Refs(t)) = 3
      BY <1>1, <1>2, <2>9, Zenon
    <3> QED BY <2>2, <3>1
  <2> QED BY <2>1, <2>3, <2>4, <2>5, <2>6, <2>7, <2>8, <2>9
<1>4. ASSUME NEW t \in {1, 2, 4}, NEW k \in Boot!Rows(t), NEW r \in Refs(t)[k] PROVE FALSE
  BY <1>1, <1>4, SeedRefs
<1>5. ASSUME NEW k \in Boot!Rows(3), NEW r \in Refs(3)[k] PROVE r[1] = 2 /\ r[2] \in 1 .. 2
  BY <1>1, <1>5, SeedRefs
<1>6. ASSUME NEW k \in Boot!Rows(5), NEW r \in Refs(5)[k] PROVE r[1] = 4 /\ r[2] \in 1 .. 3
  BY <1>1, <1>6, SeedRefs
<1>7. ASSUME NEW k \in Boot!Rows(6), NEW r \in Refs(6)[k]
      PROVE  (r[1] = 4 /\ r[2] \in 1 .. 3) \/ (r[1] = 5 /\ r[2] \in 1 .. 8)
  BY <1>1, <1>7, SeedRefs
<1>8. ASSUME NEW k \in Boot!Rows(7), NEW r \in Refs(7)[k] PROVE r[1] = 1 /\ r[2] \in 1 .. 3
  BY <1>1, <1>8, SeedRefs
<1>9. ASSUME NEW t \in 1 .. 7, NEW k \in Boot!Rows(t), NEW r \in Refs(t)[k]
      PROVE  r[1] \in 1 .. 7 /\ r[1] < t /\ r[2] \in Boot!Rows(r[1])
  <2>1. t \in {1, 2, 4} \/ t = 3 \/ t = 5 \/ t = 6 \/ t = 7
    OBVIOUS
  <2> QED BY <1>1, <1>4, <1>5, <1>6, <1>7, <1>8, <1>9, <2>1
<1> QED BY <1>3, <1>9, SeedRefs DEF Refs

\* Tables and rows are numbers.
LEMMA SeedNumbers == Boot!Tables = 1 .. 7 /\ \A t \in Boot!Tables : Boot!Rows(t) \subseteq Nat \ {0}
<1>1. Boot!Tables = 1 .. 7
  BY SeedFacts
<1>2. ASSUME NEW t \in Boot!Tables PROVE Boot!Rows(t) \subseteq Nat \ {0}
  <2>1. Len(Boot!Seed[t].refs) \in Nat \ {0} /\ Boot!Rows(t) = 1 .. Len(Boot!Seed[t].refs)
    BY SeedFacts
  <2> QED BY <2>1
<1> QED BY <1>1, <1>2

-----------------------------------------------------------------------------
\* The instances that start do what Bootstrap does, or nothing.
LEMMA BootPart == FairSpec => Boot!Init /\ [][Boot!Next]_(Boot!vars)
<1>1. Init => Boot!Init
  BY DEF Init
<1>2. [Next]_vars => [Boot!Next]_(Boot!vars)
  BY DEF Next, InStart, InScripts, InPatch, InHttp, InLists, vars, start, scripts, patch, http, lists,
         Boot!vars
<1> QED BY <1>1, <1>2, PTL DEF FairSpec

\* A database that is migrated and has every row of the seed.
Seeded == db = "migrated" /\ \A t \in Boot!Tables : Boot!Complete(t)

\* An instance at a createMany has those before it behind it, and one that is past the
\* last has all; so has a host with the flag file.
StartsInOrder ==
    /\ \A i \in Instances :
           /\ bootAt[i] \in {"seed", "store"} =>
                  /\ db = "migrated"
                  /\ \A t \in Boot!Tables : t < step[i] => Boot!Complete(t)
           /\ bootAt[i] \in {"mark", "connect", "init", "serving"} => Seeded
    /\ flag # {} => Seeded

\* Rows are stored in the order of the seed.
StoredInOrder == \A t \in Boot!Tables, u \in Boot!Tables : \A k \in Boot!Rows(t) :
    ids[t][k] # {} /\ u < t => Boot!Complete(u)

\* Instance i has taken ids of table t, and is about to store its rows.
Storing(i, t) == bootAt[i] = "store" /\ step[i] = t

Empty(t) == \A k \in Boot!Rows(t) : ids[t][k] = {}

\* A table is empty with its counter at 1, or one instance alone has taken ids, from 1, for
\* its first rows, or it has in each row the id the seed counts on.
Numbered == ~burnt => \A t \in Boot!Tables :
    \/ bootNext[t] = 1 /\ Empty(t) /\ \A i \in Instances : ~Storing(i, t)
    \/ Empty(t) /\ \E i \in Instances : /\ Storing(i, t) /\ took[i] = 1
                                        /\ \A j \in Instances : Storing(j, t) => j = i
    \/ \A k \in Boot!Rows(t) : k \in ids[t][k]

\* Hosts of which an instance is past the createMany.
Past(t) == {HostOf[i] : i \in {j \in Instances :
                \/ bootAt[j] \in {"seed", "store"} /\ t < step[j]
                \/ bootAt[j] = "mark"}}

\* At most one instance of a host sets up, at one that has no flag file, and a row is stored
\* once for each host that has it or is past it.
SetUpOnce == bootFailures = 0 /\ ~overlap =>
    /\ \A i \in Instances : bootAt[i] \in Boot!Setup => HostOf[i] \notin flag
    /\ \A i \in Instances, j \in Instances :
           bootAt[i] \in Boot!Setup /\ bootAt[j] \in Boot!Setup /\ HostOf[i] = HostOf[j] => i = j
    /\ \A t \in Boot!Tables : \A k \in Boot!Rows(t) :
           IsFiniteSet(ids[t][k]) /\ Cardinality(ids[t][k]) <= Cardinality(flag \union Past(t))

BootInv == Boot!TypeOK /\ StartsInOrder /\ StoredInOrder /\ Numbered /\ SetUpOnce

\* What a createMany leaves in its table, and in the others.
LEMMA Inserted ==
    ASSUME Boot!TypeOK, NEW i \in Instances, NEW t \in Boot!Tables, t = step[i], Boot!Insert(i)
    PROVE  /\ DOMAIN ids' = Boot!Tables
           /\ \A u \in Boot!Tables : u # t => ids'[u] = ids[u]
           /\ \A k \in Boot!Rows(t) :
                  /\ ids'[t][k] # {}
                  /\ ids[t][k] \subseteq ids'[t][k]
                  /\ ids'[t][k] \subseteq ids[t][k] \union {took[i] + k - 1}
                  /\ ids[t][k] = {} => ids'[t][k] = {took[i] + k - 1}
           /\ ids'[t] \in [Boot!Rows(t) -> SUBSET (Nat \ {0})]
<1>1. took[i] \in Nat \ {0} /\ Boot!Rows(t) \subseteq Nat \ {0}
  BY SeedNumbers DEF Boot!TypeOK
<1>2. DOMAIN ids = Boot!Tables /\ ids[t] \in [Boot!Rows(t) -> SUBSET (Nat \ {0})]
  BY DEF Boot!TypeOK
<1> DEFINE row == [k \in Boot!Rows(t) |-> IF Boot!Seed[t].unique /\ ids[t][k] # {} THEN ids[t][k]
                                          ELSE ids[t][k] \union {took[i] + k - 1}]
<1>3. ids' = [ids EXCEPT ![t] = row]
  BY DEF Boot!Insert
<1>5. row \in [Boot!Rows(t) -> SUBSET (Nat \ {0})]
  <2>1. ASSUME NEW k \in Boot!Rows(t) PROVE took[i] + k - 1 \in Nat \ {0}
    BY <1>1
  <2>2. ASSUME NEW k \in Boot!Rows(t) PROVE row[k] \subseteq Nat \ {0}
    BY <1>2, <2>1
  <2> QED BY <2>2
<1>6. \A k \in Boot!Rows(t) :
          /\ row[k] # {} /\ ids[t][k] \subseteq row[k]
          /\ row[k] \subseteq ids[t][k] \union {took[i] + k - 1}
          /\ ids[t][k] = {} => row[k] = {took[i] + k - 1}
  OBVIOUS
<1> HIDE DEF row
<1>7. ids'[t] = row /\ DOMAIN ids' = Boot!Tables
  BY <1>2, <1>3
<1>8. \A u \in Boot!Tables : u # t => ids'[u] = ids[u]
  BY <1>2, <1>3
<1> QED BY <1>5, <1>6, <1>7, <1>8

\* So all tables keep their type.
LEMMA StoredRows ==
    ASSUME Boot!TypeOK, NEW i \in Instances, Boot!Insert(i)
    PROVE  /\ DOMAIN ids' = Boot!Tables
           /\ \A t \in Boot!Tables : ids'[t] \in [Boot!Rows(t) -> SUBSET (Nat \ {0})]
<1>1. PICK u \in Boot!Tables : u = step[i]
  BY DEF Boot!TypeOK
<1>2. /\ DOMAIN ids' = Boot!Tables /\ ids'[u] \in [Boot!Rows(u) -> SUBSET (Nat \ {0})]
      /\ \A t \in Boot!Tables : t # u => ids'[t] = ids[t]
  BY <1>1, Inserted
<1> QED BY <1>2 DEF Boot!TypeOK

\* A starting server keeps the types.
LEMMA BootTypes == Boot!TypeOK /\ [Boot!Next]_(Boot!vars) => Boot!TypeOK'
<1> SUFFICES ASSUME Boot!TypeOK, [Boot!Next]_(Boot!vars) PROVE Boot!TypeOK'
  OBVIOUS
<1> USE DEF Boot!Step, Boot!Setup, Boot!Goes, Boot!tables, Boot!history
<1>0. /\ HostOf \in [Instances -> Hosts] /\ MaxStarts \in Nat /\ MaxErrors \in Nat
      /\ (Boot!Fails => bootFailures' \in 0 .. MaxErrors)
  <2>1. HostOf \in [Instances -> Hosts] /\ MaxStarts \in Nat /\ MaxErrors \in Nat
    BY OperationsAssumption DEF Boot!HostsAssumption, Boot!BoundsAssumption
  <2> QED BY <2>1 DEF Boot!Fails, Boot!TypeOK
<1>1. ASSUME NEW i \in Instances, Boot!Start(i) PROVE Boot!TypeOK'
  <2>1. starts' \in 0 .. MaxStarts
    BY <1>0, <1>1 DEF Boot!Start, Boot!TypeOK
  <2> QED BY <1>1, <2>1 DEF Boot!Start, Boot!TypeOK, Boot!Rows
<1>2. ASSUME NEW i \in Instances, Boot!InitializeDatabase(i) PROVE Boot!TypeOK'
  <2>1. overlap' \in BOOLEAN
    BY <1>2 DEF Boot!InitializeDatabase, Boot!TypeOK
  <2>2. bootAt' \in [Instances -> Boot!Step]
    BY <1>2 DEF Boot!InitializeDatabase, Boot!TypeOK
  <2> QED BY <1>2, <2>1, <2>2 DEF Boot!InitializeDatabase, Boot!TypeOK
<1>3. ASSUME NEW i \in Instances, Boot!CreateDatabase(i) PROVE Boot!TypeOK'
  BY <1>3 DEF Boot!CreateDatabase, Boot!TypeOK
<1>4. ASSUME NEW i \in Instances, Boot!RunMigration(i) PROVE Boot!TypeOK'
  <2>1. 1 \in Boot!Tables
    BY SeedFacts
  <2> QED BY <1>4, <2>1 DEF Boot!RunMigration, Boot!TypeOK
<1>5. ASSUME NEW i \in Instances, Boot!RunSeed(i) PROVE Boot!TypeOK'
  <2>1. Boot!Insert(i) /\ step[i] \in Boot!Tables
    BY <1>5 DEF Boot!RunSeed, Boot!TypeOK
  <2>2. /\ DOMAIN ids' = Boot!Tables
        /\ \A t \in Boot!Tables : ids'[t] \in [Boot!Rows(t) -> SUBSET (Nat \ {0})]
    BY <2>1, StoredRows
  <2>3. step' \in [Instances -> Boot!Tables] /\ bootAt' \in [Instances -> Boot!Step]
    <3>1. CASE step[i] = 7
      BY <1>5, <3>1, SeedFacts DEF Boot!RunSeed, Boot!Last, Boot!TypeOK
    <3>2. CASE step[i] # 7
      <4>1. step[i] + 1 \in Boot!Tables
        BY <2>1, <3>2, SeedFacts
      <4>2. step' = [step EXCEPT ![i] = step[i] + 1] /\ bootAt' = [bootAt EXCEPT ![i] = "seed"]
        BY <1>5, <3>2, SeedFacts DEF Boot!RunSeed, Boot!Last
      <4> QED BY <4>1, <4>2 DEF Boot!TypeOK
    <3> QED BY <3>1, <3>2
  <2> QED BY <1>5, <2>2, <2>3 DEF Boot!RunSeed, Boot!TypeOK
<1>6. ASSUME NEW i \in Instances, Boot!MarkAsInitialized(i) PROVE Boot!TypeOK'
  BY <1>0, <1>6 DEF Boot!MarkAsInitialized, Boot!TypeOK
<1>7. ASSUME NEW i \in Instances, Boot!Connect(i) PROVE Boot!TypeOK'
  BY <1>7 DEF Boot!Connect, Boot!TypeOK
<1>8. ASSUME NEW i \in Instances, Boot!OnModuleInit(i) PROVE Boot!TypeOK'
  BY <1>8 DEF Boot!OnModuleInit, Boot!TypeOK
<1>9. ASSUME NEW i \in Instances, Boot!Listen(i) \/ Boot!Stop(i) PROVE Boot!TypeOK'
  BY <1>9 DEF Boot!Listen, Boot!Stop, Boot!TypeOK
<1>10. ASSUME NEW i \in Instances, Boot!Fail(i) PROVE Boot!TypeOK'
  <2>1. db' \in {"none", "created", "migrated"} /\ flag' \subseteq Hosts
    BY <1>0, <1>10 DEF Boot!Fail, Boot!TypeOK
  <2>2. bootFailures' \in 0 .. MaxErrors /\ bootAt' \in [Instances -> Boot!Step]
    BY <1>0, <1>10 DEF Boot!Fail, Boot!Exit, Boot!TypeOK
  <2> QED BY <1>10, <2>1, <2>2 DEF Boot!Fail, Boot!Exit, Boot!TypeOK
<1>11. ASSUME NEW i \in Instances, Boot!FailSeed(i) PROVE Boot!TypeOK'
  <2>1. bootFailures' \in 0 .. MaxErrors /\ bootAt' \in [Instances -> Boot!Step] /\ burnt' \in BOOLEAN
    BY <1>0, <1>11 DEF Boot!FailSeed, Boot!Exit, Boot!TypeOK
  <2>2. /\ DOMAIN ids' = Boot!Tables
        /\ \A t \in Boot!Tables : ids'[t] \in [Boot!Rows(t) -> SUBSET (Nat \ {0})]
    BY <1>11, StoredRows DEF Boot!FailSeed, Boot!TypeOK
  <2> QED BY <1>11, <2>1, <2>2 DEF Boot!FailSeed, Boot!Exit, Boot!TypeOK
<1>12. CASE UNCHANGED Boot!vars
  BY <1>12 DEF Boot!TypeOK, Boot!vars
<1>13. ASSUME NEW i \in Instances, Boot!TakeIds(i) PROVE Boot!TypeOK'
  <2> DEFINE t == step[i]
             n == bootNext[t] + Len(Boot!Seed[t].refs)
  <2>1. t \in Boot!Tables
    BY DEF Boot!TypeOK
  <2>2. Len(Boot!Seed[t].refs) \in Nat \ {0}
    BY <2>1, SeedFacts
  <2>3. bootNext[t] \in Nat \ {0} /\ n \in Nat \ {0}
    BY <2>1, <2>2 DEF Boot!TypeOK
  <2>4. /\ bootNext' = [bootNext EXCEPT ![t] = n] /\ took' = [took EXCEPT ![i] = bootNext[t]]
        /\ burnt' \in BOOLEAN /\ bootAt' \in [Instances -> Boot!Step]
    BY <1>13 DEF Boot!TakeIds, Boot!TypeOK
  <2> HIDE DEF t, n
  <2> QED BY <1>13, <2>3, <2>4 DEF Boot!TakeIds, Boot!TypeOK
<1> QED BY <1>1, <1>2, <1>3, <1>4, <1>5, <1>6, <1>7, <1>8, <1>9, <1>10, <1>11, <1>12, <1>13
        DEF Boot!Next, Boot!Go

\* What a step does to the tables: nothing, rows of one createMany, taking ids for one, or
\* rolling one back.
LEMMA TableSteps ==
    ASSUME [Boot!Next]_(Boot!vars)
    PROVE  \/ UNCHANGED <<ids, bootNext, burnt>>
           \/ \E i \in Instances : /\ bootAt[i] = "store" /\ Boot!Insert(i)
                                   /\ UNCHANGED <<bootNext, burnt>>
           \/ ids' = ids /\ \E i \in Instances : Boot!TakeIds(i)
           \/ burnt' = TRUE /\ ids' = ids
<1>1. ASSUME NEW i \in Instances, Boot!RunSeed(i) \/ Boot!FailSeed(i)
      PROVE  \/ bootAt[i] = "store" /\ Boot!Insert(i) /\ UNCHANGED <<bootNext, burnt>>
             \/ burnt' = TRUE /\ ids' = ids
  BY <1>1 DEF Boot!RunSeed, Boot!FailSeed, Boot!tables, Boot!history
<1>2. ASSUME NEW i \in Instances,
             \/ Boot!Start(i) \/ Boot!InitializeDatabase(i) \/ Boot!CreateDatabase(i)
             \/ Boot!RunMigration(i) \/ Boot!MarkAsInitialized(i) \/ Boot!Connect(i)
             \/ Boot!OnModuleInit(i) \/ Boot!Listen(i) \/ Boot!Stop(i) \/ Boot!Fail(i)
      PROVE  UNCHANGED <<ids, bootNext, burnt>>
  BY <1>2 DEF Boot!Start, Boot!InitializeDatabase, Boot!CreateDatabase, Boot!RunMigration,
              Boot!MarkAsInitialized, Boot!Connect, Boot!OnModuleInit, Boot!Listen, Boot!Stop,
              Boot!Fail, Boot!tables, Boot!history
<1>3. ASSUME NEW i \in Instances, Boot!TakeIds(i) PROVE ids' = ids
  BY <1>3 DEF Boot!TakeIds
<1>4. CASE UNCHANGED Boot!vars
  BY <1>4 DEF Boot!vars
<1> QED BY <1>1, <1>2, <1>3, <1>4 DEF Boot!Next, Boot!Go

\* No row goes away.
LEMMA RowsStay ==
    ASSUME Boot!TypeOK, [Boot!Next]_(Boot!vars)
    PROVE  \A t \in Boot!Tables : /\ \A k \in Boot!Rows(t) : ids[t][k] \subseteq ids'[t][k]
                                  /\ Boot!Complete(t) => Boot!Complete(t)'
<1>1. ASSUME NEW t \in Boot!Tables, NEW k \in Boot!Rows(t) PROVE ids[t][k] \subseteq ids'[t][k]
  <2>1. CASE ids' = ids
    BY <2>1
  <2>2. CASE \E i \in Instances : Boot!Insert(i)
    <3>1. PICK i \in Instances : Boot!Insert(i)
      BY <2>2
    <3>2. PICK u \in Boot!Tables : u = step[i]
      BY DEF Boot!TypeOK
    <3>3. /\ t # u => ids'[t] = ids[t]
          /\ \A q \in Boot!Rows(u) : ids[u][q] \subseteq ids'[u][q]
      BY <3>1, <3>2, Inserted
    <3> QED BY <3>3
  <2> QED BY <2>1, <2>2, TableSteps
<1>2. ASSUME NEW t \in Boot!Tables, Boot!Complete(t) PROVE Boot!Complete(t)'
  <2>1. ASSUME NEW k \in Boot!Rows(t) PROVE ids'[t][k] # {}
    BY <1>1, <1>2 DEF Boot!Complete
  <2> QED BY <2>1 DEF Boot!Complete, Boot!Rows
<1> QED BY <1>1, <1>2

\* What is stored has what it refers to before it.
LEMMA StoresInOrder ==
    Boot!TypeOK /\ StartsInOrder /\ StoredInOrder /\ [Boot!Next]_(Boot!vars) => StoredInOrder'
<1> SUFFICES ASSUME Boot!TypeOK, StartsInOrder, StoredInOrder, [Boot!Next]_(Boot!vars),
                    NEW t \in Boot!Tables, NEW u \in Boot!Tables, NEW k \in Boot!Rows(t),
                    ids'[t][k] # {}, u < t
             PROVE  Boot!Complete(u)'
  BY DEF StoredInOrder, Boot!Rows, Boot!Tables
<1>1. CASE ids[t][k] # {}
  BY <1>1, RowsStay DEF StoredInOrder
<1>2. CASE ids[t][k] = {}
  <2>1. PICK i \in Instances : bootAt[i] = "store" /\ Boot!Insert(i)
    BY <1>2, TableSteps
  <2>2. PICK v \in Boot!Tables : v = step[i]
    BY DEF Boot!TypeOK
  <2>4. t # v => ids'[t] = ids[t]
    BY <2>1, <2>2, Inserted
  <2>5. t = v
    BY <1>2, <2>4
  <2>6. Boot!Complete(u)
    BY <2>1, <2>2, <2>5 DEF StartsInOrder
  <2> QED BY <2>6, RowsStay
<1> QED BY <1>1, <1>2

\* Who is about to store rows comes there by taking ids, and goes by storing them or failing.
LEMMA Storers ==
    ASSUME Boot!TypeOK, [Boot!Next]_(Boot!vars), ~burnt', NEW t \in Boot!Tables
    PROVE  \/ /\ bootNext'[t] = bootNext[t] /\ ~burnt
              /\ \A j \in Instances : /\ Storing(j, t)' <=> Storing(j, t)
                                      /\ Storing(j, t) => took'[j] = took[j]
           \/ \E i \in Instances : /\ Boot!TakeIds(i) /\ step[i] = t /\ ~burnt
                                   /\ took'[i] = bootNext[t] /\ Storing(i, t)'
                                   /\ \A j \in Instances : ~Storing(j, t) /\ (Storing(j, t)' => j = i)
           \/ \E i \in Instances : Storing(i, t) /\ Boot!Insert(i) /\ ~burnt
<1> USE DEF Storing, Boot!Goes, Boot!tables, Boot!history
<1>0. /\ bootAt \in [Instances -> Boot!Step] /\ step \in [Instances -> Boot!Tables]
      /\ took \in [Instances -> Nat \ {0}] /\ bootNext \in [Boot!Tables -> Nat \ {0}] /\ burnt \in BOOLEAN
  BY DEF Boot!TypeOK
<1>1. ASSUME NEW i \in Instances,
             \/ Boot!Start(i) \/ Boot!InitializeDatabase(i) \/ Boot!CreateDatabase(i)
             \/ Boot!RunMigration(i) \/ Boot!MarkAsInitialized(i) \/ Boot!Connect(i)
             \/ Boot!OnModuleInit(i) \/ Boot!Listen(i) \/ Boot!Stop(i)
      PROVE  /\ bootNext' = bootNext /\ ~burnt /\ took' = took
             /\ \A j \in Instances : /\ bootAt'[j] = "store" <=> bootAt[j] = "store"
                                     /\ bootAt[j] = "store" => step'[j] = step[j]
  BY <1>0, <1>1 DEF Boot!Start, Boot!InitializeDatabase, Boot!CreateDatabase, Boot!RunMigration,
                    Boot!MarkAsInitialized, Boot!Connect, Boot!OnModuleInit, Boot!Listen, Boot!Stop
<1>2. ASSUME NEW i \in Instances, Boot!Fail(i)
      PROVE  /\ bootNext' = bootNext /\ ~burnt /\ took' = took
             /\ \A j \in Instances : /\ bootAt'[j] = "store" <=> bootAt[j] = "store"
                                     /\ bootAt[j] = "store" => step'[j] = step[j]
  BY <1>0, <1>2 DEF Boot!Fail, Boot!Exit
<1>3. ASSUME NEW i \in Instances, Boot!RunSeed(i) \/ Boot!FailSeed(i)
      PROVE  /\ bootNext' = bootNext /\ ~burnt /\ took' = took
             /\ bootAt[i] = "store" /\ bootAt'[i] # "store" /\ Boot!Insert(i)
             /\ \A j \in Instances : j # i => bootAt'[j] = bootAt[j] /\ step'[j] = step[j]
  <2>1. CASE Boot!RunSeed(i)
    BY <1>0, <2>1 DEF Boot!RunSeed
  <2>2. CASE Boot!FailSeed(i)
    BY <1>0, <2>2 DEF Boot!FailSeed, Boot!Exit
  <2> QED BY <1>3, <2>1, <2>2
<1>4. ASSUME NEW i \in Instances, Boot!TakeIds(i)
      PROVE  /\ ~burnt /\ bootAt'[i] = "store" /\ step' = step /\ took'[i] = bootNext[step[i]]
             /\ \A j \in Instances : bootAt[j] = "store" => step[j] # step[i]
             /\ \A j \in Instances : j # i => bootAt'[j] = bootAt[j] /\ took'[j] = took[j]
             /\ bootAt[i] # "store" /\ (t # step[i] => bootNext'[t] = bootNext[t])
  BY <1>0, <1>4 DEF Boot!TakeIds
<1>5. CASE UNCHANGED Boot!vars
  BY <1>5 DEF Boot!vars
<1>6. ASSUME NEW i \in Instances, Boot!RunSeed(i) \/ Boot!FailSeed(i)
      PROVE  \/ /\ bootNext'[t] = bootNext[t] /\ ~burnt
                /\ \A j \in Instances : /\ Storing(j, t)' <=> Storing(j, t)
                                        /\ Storing(j, t) => took'[j] = took[j]
             \/ Storing(i, t) /\ Boot!Insert(i) /\ ~burnt
  BY <1>3, <1>6
<1>7. ASSUME NEW i \in Instances, Boot!TakeIds(i)
      PROVE  \/ /\ bootNext'[t] = bootNext[t] /\ ~burnt
                /\ \A j \in Instances : /\ Storing(j, t)' <=> Storing(j, t)
                                        /\ Storing(j, t) => took'[j] = took[j]
             \/ /\ step[i] = t /\ ~burnt
                /\ took'[i] = bootNext[t] /\ Storing(i, t)'
                /\ \A j \in Instances : ~Storing(j, t) /\ (Storing(j, t)' => j = i)
  BY <1>4, <1>7
<1> QED BY <1>1, <1>2, <1>5, <1>6, <1>7 DEF Boot!Next, Boot!Go

\* Unless a statement was rolled back, or took ids while another had its own, a table gets
\* the ids the seed counts on.
LEMMA Numbers == Boot!TypeOK /\ Numbered /\ [Boot!Next]_(Boot!vars) => Numbered'
<1> SUFFICES ASSUME Boot!TypeOK, Numbered, [Boot!Next]_(Boot!vars), ~burnt', NEW t \in Boot!Tables
             PROVE  \/ bootNext'[t] = 1 /\ Empty(t)' /\ \A i \in Instances : ~Storing(i, t)'
                    \/ Empty(t)' /\ \E i \in Instances : /\ Storing(i, t)' /\ took'[i] = 1
                                                         /\ \A j \in Instances : Storing(j, t)' => j = i
                    \/ \A k \in Boot!Rows(t) : k \in ids'[t][k]
  BY DEF Numbered, Boot!Rows, Boot!Tables
<1>0. ~burnt
  BY Storers
<1>1. CASE \A k \in Boot!Rows(t) : k \in ids[t][k]
  BY <1>1, RowsStay
<1>2. ASSUME NEW i \in Instances, Storing(i, t), Boot!Insert(i),
             ~\A k \in Boot!Rows(t) : k \in ids[t][k]
      PROVE  \A k \in Boot!Rows(t) : k \in ids'[t][k]
  <2>1. Empty(t) /\ took[i] = 1
    BY <1>0, <1>2 DEF Numbered
  <2>2. ASSUME NEW k \in Boot!Rows(t) PROVE k \in ids'[t][k]
    <3>1. ids'[t][k] = {took[i] + k - 1}
      BY <1>2, <2>1, Inserted DEF Empty, Storing
    <3>2. k \in Nat
      BY SeedNumbers
    <3>3. took[i] + k - 1 = k
      BY <2>1, <3>2
    <3> QED BY <3>1, <3>3
  <2> QED BY <2>2
<1>3. CASE /\ ~\A k \in Boot!Rows(t) : k \in ids[t][k]
           /\ ~\E i \in Instances : Storing(i, t) /\ Boot!Insert(i)
  <2>1. Empty(t) => Empty(t)'
    <3>1. CASE ids' = ids
      BY <3>1 DEF Empty, Boot!Rows
    <3>2. CASE \E i \in Instances : bootAt[i] = "store" /\ Boot!Insert(i)
      <4>1. PICK i \in Instances : bootAt[i] = "store" /\ Boot!Insert(i)
        BY <3>2
      <4>2. PICK v \in Boot!Tables : v = step[i]
        BY DEF Boot!TypeOK
      <4>3. t # v
        BY <1>3, <4>1, <4>2 DEF Storing
      <4>4. ids'[t] = ids[t]
        BY <4>1, <4>2, <4>3, Inserted
      <4> QED BY <4>4 DEF Empty, Boot!Rows
    <3> QED BY <3>1, <3>2, TableSteps
  <2>2. Empty(t) /\ \/ bootNext[t] = 1 /\ \A i \in Instances : ~Storing(i, t)
                    \/ \E i \in Instances : /\ Storing(i, t) /\ took[i] = 1
                                            /\ \A j \in Instances : Storing(j, t) => j = i
    BY <1>0, <1>3 DEF Numbered
  <2>3. CASE /\ bootNext'[t] = bootNext[t]
             /\ \A j \in Instances : /\ Storing(j, t)' <=> Storing(j, t)
                                     /\ Storing(j, t) => took'[j] = took[j]
    BY <2>1, <2>2, <2>3
  <2>4. ASSUME NEW i \in Instances, took'[i] = bootNext[t], Storing(i, t)',
               \A j \in Instances : ~Storing(j, t) /\ (Storing(j, t)' => j = i)
        PROVE  Empty(t)' /\ took'[i] = 1
    BY <2>1, <2>2, <2>4
  <2> QED BY <1>3, <2>3, <2>4, Storers
<1> QED BY <1>1, <1>2, <1>3

\* No start goes on before its part of the seed is there.
LEMMA StartsGoOn ==
    Boot!TypeOK /\ StartsInOrder /\ [Boot!Next]_(Boot!vars) => StartsInOrder'
<1> SUFFICES ASSUME Boot!TypeOK, StartsInOrder, [Boot!Next]_(Boot!vars) PROVE StartsInOrder'
  OBVIOUS
<1> DEFINE Before(j) == db = "migrated" /\ \A t \in Boot!Tables : t < step[j] => Boot!Complete(t)
           Within == {"seed", "store"}
           Beyond == {"mark", "connect", "init", "serving"}
<1>0. /\ db = "migrated" => db' = "migrated"
      /\ Seeded => Seeded'
      /\ \A j \in Instances : Before(j) /\ step'[j] = step[j] => Before(j)'
  <2>1. db = "migrated" => db' = "migrated"
    BY DEF Boot!Next, Boot!Go, Boot!Start, Boot!InitializeDatabase, Boot!CreateDatabase,
           Boot!RunMigration, Boot!TakeIds, Boot!RunSeed, Boot!MarkAsInitialized, Boot!Connect,
           Boot!OnModuleInit, Boot!Listen, Boot!Stop, Boot!Fail, Boot!FailSeed, Boot!vars
  <2>2. \A t \in Boot!Tables : Boot!Complete(t) => Boot!Complete(t)'
    BY RowsStay
  <2> QED BY <2>1, <2>2 DEF Seeded, Boot!Tables
<1>1. SUFFICES
        /\ flag' # {} => flag # {} \/ Seeded'
        /\ \A j \in Instances :
            /\ bootAt'[j] \in Within => Before(j)' \/ (bootAt[j] \in Within /\ step'[j] = step[j])
            /\ bootAt'[j] \in Beyond => Seeded' \/ bootAt[j] \in Beyond
  BY <1>0, <1>1 DEF StartsInOrder, Boot!Tables
<1> DEFINE Good == /\ flag' # {} => flag # {} \/ Seeded'
                   /\ \A j \in Instances :
                       /\ bootAt'[j] \in Within => Before(j)' \/ (bootAt[j] \in Within /\ step'[j] = step[j])
                       /\ bootAt'[j] \in Beyond => Seeded' \/ bootAt[j] \in Beyond
<1> USE DEF Boot!TypeOK, Boot!Goes
<1>2. ASSUME NEW i \in Instances,
             Boot!Start(i) \/ Boot!CreateDatabase(i) \/ Boot!Connect(i) \/ Boot!OnModuleInit(i)
               \/ Boot!Listen(i) \/ Boot!Stop(i)
      PROVE  Good
  BY <1>2 DEF Boot!Start, Boot!CreateDatabase, Boot!Connect, Boot!OnModuleInit, Boot!Listen, Boot!Stop
<1>3. ASSUME NEW i \in Instances, Boot!InitializeDatabase(i) PROVE Good
  <2>1. CASE HostOf[i] \in flag
    <3>1. Seeded'
      BY <1>0, <2>1 DEF StartsInOrder
    <3> QED BY <1>3, <3>1 DEF Boot!InitializeDatabase
  <2>2. CASE HostOf[i] \notin flag
    BY <1>3, <2>2 DEF Boot!InitializeDatabase, Boot!IsInitialized
  <2> QED BY <2>1, <2>2
<1>4. ASSUME NEW i \in Instances, Boot!RunMigration(i) PROVE Good
  <2>1. Before(i)'
    <3>1. step'[i] = 1 /\ db' = "migrated"
      BY <1>4 DEF Boot!RunMigration
    <3>2. \A t \in Boot!Tables : ~(t < 1)
      BY SeedFacts
    <3> QED BY <3>1, <3>2 DEF Boot!Tables
  <2> HIDE DEF Before
  <2> QED BY <1>4, <2>1 DEF Boot!RunMigration
<1>5. ASSUME NEW i \in Instances, Boot!RunSeed(i) PROVE Good
  <2>1. PICK v \in Boot!Tables : v = step[i]
    OBVIOUS
  <2>2. Boot!Insert(i) /\ bootAt[i] = "store" /\ db' = db /\ flag' = flag
    BY <1>5 DEF Boot!RunSeed
  <2>3. Boot!Complete(v)'
    BY <2>1, <2>2, Inserted DEF Boot!Complete, Boot!Rows
  <2>4. \A t \in Boot!Tables : t <= v => Boot!Complete(t)'
    <3>1. \A t \in Boot!Tables : t < v => Boot!Complete(t)'
      BY <2>1, <2>2, RowsStay DEF StartsInOrder
    <3>2. \A t \in Boot!Tables : t \in Int
      BY SeedNumbers
    <3> HIDE DEF Boot!TypeOK
    <3>3. \A t \in Boot!Tables : t <= v => t < v \/ t = v
      BY <3>2
    <3> QED BY <2>3, <3>1, <3>3
  <2>5. db' = "migrated"
    BY <2>2 DEF StartsInOrder
  <2>6. CASE v = 7
    <3>1. Seeded'
      BY <2>4, <2>5, <2>6, SeedFacts DEF Seeded, Boot!Tables
    <3> HIDE DEF Before
    <3>2. bootAt' = [bootAt EXCEPT ![i] = "mark"] /\ step' = step
      BY <1>5, <2>1, <2>6, SeedFacts DEF Boot!RunSeed, Boot!Last
    <3> QED BY <2>2, <3>1, <3>2
  <2>7. CASE v # 7
    <3>1. step' = [step EXCEPT ![i] = v + 1] /\ bootAt' = [bootAt EXCEPT ![i] = "seed"]
      BY <1>5, <2>1, <2>7, SeedFacts DEF Boot!RunSeed, Boot!Last
    <3>2. Before(i)'
      <4>1. \A t \in Boot!Tables : t < v + 1 => t <= v
        BY SeedFacts
      <4>2. step'[i] = v + 1
        BY <3>1
      <4> QED BY <2>4, <2>5, <4>1, <4>2 DEF Boot!Tables
    <3> HIDE DEF Before
    <3> QED BY <2>2, <3>1, <3>2
  <2> QED BY <2>6, <2>7
<1>6. ASSUME NEW i \in Instances, Boot!MarkAsInitialized(i) PROVE Good
  <2>1. Seeded'
    BY <1>0, <1>6 DEF Boot!MarkAsInitialized, StartsInOrder
  <2> HIDE DEF Before
  <2> QED BY <1>6, <2>1 DEF Boot!MarkAsInitialized
<1>7. ASSUME NEW i \in Instances, Boot!Fail(i) PROVE Good
  <2>1. bootAt[i] = "mark" => Seeded'
    BY <1>0 DEF StartsInOrder
  <2> HIDE DEF Before
  <2> QED BY <1>7, <2>1 DEF Boot!Fail, Boot!Exit
<1>8. ASSUME NEW i \in Instances, Boot!FailSeed(i) PROVE Good
  <2> HIDE DEF Before
  <2> QED BY <1>8 DEF Boot!FailSeed, Boot!Exit
<1>9. CASE UNCHANGED Boot!vars
  <2> HIDE DEF Before
  <2> QED BY <1>9 DEF Boot!vars
<1>10. ASSUME NEW i \in Instances, Boot!TakeIds(i) PROVE Good
  <2> HIDE DEF Before
  <2> QED BY <1>10 DEF Boot!TakeIds
<1> QED BY <1>2, <1>3, <1>4, <1>5, <1>6, <1>7, <1>8, <1>9, <1>10 DEF Boot!Next, Boot!Go

\* The hosts are finitely many.
LEMMA HostSets ==
    ASSUME NEW S \in SUBSET Hosts
    PROVE  /\ IsFiniteSet(S) /\ Cardinality(S) \in Nat
           /\ \A T \in SUBSET S : Cardinality(T) <= Cardinality(S)
<1>1. IsFiniteSet(Hosts)
  BY OperationsAssumption DEF Boot!HostsAssumption, IsFiniteSet, Boot!IsFiniteSet
<1>2. IsFiniteSet(S)
  BY <1>1, FS_Subset
<1>3. \A T \in SUBSET S : Cardinality(T) <= Cardinality(S)
  BY <1>2, FS_Subset
<1> QED BY <1>2, <1>3, FS_CardinalityType

\* A start that nobody cut off, and that no other of its host ran into, stores each row once.
LEMMA SetsUpOnce ==
    Boot!TypeOK /\ Boot!TypeOK' /\ SetUpOnce /\ [Boot!Next]_(Boot!vars) => SetUpOnce'
<1> SUFFICES ASSUME Boot!TypeOK, Boot!TypeOK', SetUpOnce, [Boot!Next]_(Boot!vars),
                    bootFailures' = 0, ~overlap'
             PROVE  SetUpOnce'
  BY DEF SetUpOnce
<1> USE DEF Boot!Goes, Boot!tables, Boot!history
<1>0. bootFailures \in Nat /\ \A i \in Instances : ~Boot!Fail(i) /\ ~Boot!FailSeed(i)
  <2>1. bootFailures \in Nat
    BY DEF Boot!TypeOK
  <2>2. bootFailures + 1 # 0
    BY <2>1
  <2> QED BY <2>1, <2>2 DEF Boot!Fail, Boot!FailSeed, Boot!Fails
<1>1. bootFailures = 0 /\ ~overlap
  <2>1. \/ UNCHANGED <<bootFailures, overlap>>
        \/ \E i \in Instances : Boot!InitializeDatabase(i)
    BY <1>0 DEF Boot!Next, Boot!Go, Boot!Start, Boot!CreateDatabase, Boot!RunMigration,
           Boot!TakeIds, Boot!RunSeed, Boot!MarkAsInitialized, Boot!Connect, Boot!OnModuleInit, Boot!Listen, Boot!Stop, Boot!vars
  <2>2. ASSUME NEW i \in Instances, Boot!InitializeDatabase(i)
        PROVE  bootFailures' = bootFailures /\ (overlap => overlap')
    BY <2>2 DEF Boot!InitializeDatabase
  <2> QED BY <2>1, <2>2
<1>2. /\ \A i \in Instances : bootAt[i] \in Boot!Setup => HostOf[i] \notin flag
      /\ \A i \in Instances, j \in Instances :
             bootAt[i] \in Boot!Setup /\ bootAt[j] \in Boot!Setup /\ HostOf[i] = HostOf[j] => i = j
      /\ \A t \in Boot!Tables : \A k \in Boot!Rows(t) :
             IsFiniteSet(ids[t][k]) /\ Cardinality(ids[t][k]) <= Cardinality(flag \union Past(t))
  BY <1>1 DEF SetUpOnce
\* The first two.
<1> DEFINE Alone == /\ \A i \in Instances : bootAt'[i] \in Boot!Setup => HostOf[i] \notin flag'
                    /\ \A i \in Instances, j \in Instances :
                           bootAt'[i] \in Boot!Setup /\ bootAt'[j] \in Boot!Setup
                             /\ HostOf[i] = HostOf[j] => i = j
<1>3. Alone
  <2> DEFINE Stays == /\ flag' = flag
                      /\ \A i \in Instances : bootAt'[i] \in Boot!Setup => bootAt[i] \in Boot!Setup
  <2>1. CASE Stays
    BY <1>2, <2>1
  <2>2. ASSUME NEW i \in Instances, Boot!InitializeDatabase(i), HostOf[i] \notin flag PROVE Alone
    <3>1. /\ flag' = flag /\ bootAt' = [bootAt EXCEPT ![i] = "create"]
          /\ \A j \in Instances : bootAt[j] \in Boot!Setup => HostOf[j] # HostOf[i]
      BY <2>2 DEF Boot!InitializeDatabase, Boot!IsInitialized
    <3>2. \A j \in Instances : j # i => bootAt'[j] = bootAt[j]
      BY <3>1 DEF Boot!TypeOK
    <3> QED BY <1>2, <2>2, <3>1, <3>2
  <2>3. ASSUME NEW i \in Instances, Boot!MarkAsInitialized(i) PROVE Alone
    <3>1. /\ flag' = flag \union {HostOf[i]} /\ bootAt[i] \in Boot!Setup
          /\ \A j \in Instances : bootAt'[j] \in Boot!Setup => bootAt[j] \in Boot!Setup /\ j # i
      BY <2>3 DEF Boot!MarkAsInitialized, Boot!TypeOK, Boot!Setup
    <3> QED BY <1>2, <3>1
  <2>4. ASSUME NEW i \in Instances,
               \/ Boot!Start(i) \/ (Boot!InitializeDatabase(i) /\ HostOf[i] \in flag)
               \/ Boot!CreateDatabase(i) \/ Boot!RunMigration(i) \/ Boot!TakeIds(i)
               \/ Boot!RunSeed(i) \/ Boot!Connect(i) \/ Boot!OnModuleInit(i) \/ Boot!Listen(i) \/ Boot!Stop(i)
        PROVE  Stays
    BY <2>4 DEF Boot!Start, Boot!InitializeDatabase, Boot!IsInitialized, Boot!CreateDatabase,
                Boot!RunMigration, Boot!TakeIds, Boot!RunSeed, Boot!Connect,
                Boot!OnModuleInit, Boot!Listen, Boot!Stop, Boot!TypeOK, Boot!Setup
  <2>5. CASE UNCHANGED Boot!vars
    BY <2>1, <2>5 DEF Boot!vars
  <2> HIDE DEF Alone, Stays
  <2>6. ASSUME NEW i \in Instances, Boot!InitializeDatabase(i) PROVE Alone
    BY <2>1, <2>2, <2>4, <2>6
  <2> QED BY <1>0, <2>1, <2>3, <2>4, <2>5, <2>6 DEF Boot!Next, Boot!Go
<1> HIDE DEF Alone
\* The third.
<1> DEFINE HadHosts(t) == flag \union Past(t)
           HasHosts(t) == (flag \union Past(t))'
<1>4. ASSUME NEW t \in Boot!Tables PROVE HadHosts(t) \subseteq HasHosts(t)
  <2>1. ASSUME NEW i \in Instances,
               \/ Boot!Start(i) \/ Boot!InitializeDatabase(i)
               \/ Boot!CreateDatabase(i) \/ Boot!RunMigration(i)
               \/ Boot!Connect(i) \/ Boot!OnModuleInit(i) \/ Boot!Listen(i) \/ Boot!Stop(i)
        PROVE  /\ flag' = flag
               /\ \A j \in Instances : bootAt[j] \in {"seed", "store", "mark"} =>
                      bootAt'[j] = bootAt[j] /\ step'[j] = step[j]
    BY <2>1 DEF Boot!Start, Boot!InitializeDatabase, Boot!CreateDatabase,
                Boot!RunMigration, Boot!Connect,
                Boot!OnModuleInit, Boot!Listen, Boot!Stop, Boot!TypeOK
  <2>2. ASSUME NEW i \in Instances, Boot!RunSeed(i)
        PROVE  /\ flag' = flag
               /\ \A j \in Instances : bootAt[j] = "mark" => bootAt'[j] = "mark"
               /\ \A j \in Instances : bootAt[j] \in {"seed", "store"} /\ t < step[j] =>
                      bootAt'[j] = "mark" \/ (bootAt'[j] \in {"seed", "store"} /\ t < step'[j])
    BY <2>2, SeedNumbers DEF Boot!RunSeed, Boot!TypeOK
  <2>3. ASSUME NEW i \in Instances, Boot!MarkAsInitialized(i)
        PROVE  /\ flag' = flag \union {HostOf[i]} /\ step' = step
               /\ \A j \in Instances : j # i => bootAt'[j] = bootAt[j]
    BY <2>3 DEF Boot!MarkAsInitialized, Boot!TypeOK
  <2>4. CASE UNCHANGED Boot!vars
    BY <2>4 DEF Boot!vars, Past
  <2>5. ASSUME NEW i \in Instances, Boot!TakeIds(i)
        PROVE  /\ flag' = flag /\ step' = step
               /\ \A j \in Instances : bootAt[j] = "mark" => bootAt'[j] = "mark"
               /\ \A j \in Instances : bootAt[j] \in {"seed", "store"} => bootAt'[j] \in {"seed", "store"}
    BY <2>5 DEF Boot!TakeIds, Boot!TypeOK
  <2> QED BY <1>0, <2>1, <2>2, <2>3, <2>4, <2>5 DEF Boot!Next, Boot!Go, Past
<1>5. ASSUME NEW t \in Boot!Tables PROVE HadHosts(t) \in SUBSET Hosts /\ HasHosts(t) \in SUBSET Hosts
  BY OperationsAssumption DEF Boot!HostsAssumption, Boot!TypeOK, Past
<1>6. ASSUME NEW t \in Boot!Tables
      PROVE  /\ Cardinality(HadHosts(t)) \in Nat /\ Cardinality(HasHosts(t)) \in Nat
             /\ Cardinality(HadHosts(t)) <= Cardinality(HasHosts(t))
             /\ \A i \in Instances : HostOf[i] \in HasHosts(t) \ HadHosts(t) =>
                    Cardinality(HadHosts(t)) + 1 <= Cardinality(HasHosts(t))
  <2>1. PICK S \in SUBSET Hosts, T \in SUBSET Hosts : S = HadHosts(t) /\ T = HasHosts(t)
    BY <1>5
  <2>2. S \subseteq T
    BY <1>4, <2>1
  <2> HIDE DEF HadHosts, HasHosts
  <2>3. /\ IsFiniteSet(S) /\ Cardinality(S) \in Nat /\ Cardinality(T) \in Nat
        /\ \A R \in SUBSET T : Cardinality(R) <= Cardinality(T)
    BY HostSets
  <2>4. ASSUME NEW h \in T \ S PROVE Cardinality(S) + 1 <= Cardinality(T)
    <3>1. Cardinality(S \cup {h}) = Cardinality(S) + 1
      BY <2>3, FS_AddElement
    <3>2. S \cup {h} \in SUBSET T
      BY <2>2
    <3> QED BY <2>3, <3>1, <3>2
  <2> QED BY <2>1, <2>2, <2>3, <2>4
<1> DEFINE n(t, k) == Cardinality(ids[t][k])
<1>7. ASSUME NEW t \in Boot!Tables, NEW k \in Boot!Rows(t)
      PROVE  /\ IsFiniteSet(ids[t][k]) /\ n(t, k) \in Nat
             /\ n(t, k) <= Cardinality(HadHosts(t))
  BY <1>2, FS_CardinalityType
<1>8. ASSUME NEW t \in Boot!Tables, NEW k \in Boot!Rows(t)
      PROVE  /\ IsFiniteSet(ids'[t][k])
             /\ Cardinality(ids'[t][k]) <= Cardinality(HasHosts(t))
  <2>1. CASE ids'[t][k] = ids[t][k]
    <3> HIDE DEF HadHosts, HasHosts
    <3> QED BY <1>6, <1>7, <2>1
  <2>2. ASSUME NEW i \in Instances, Boot!RunSeed(i), t = step[i]
        PROVE  /\ IsFiniteSet(ids'[t][k])
               /\ Cardinality(ids'[t][k]) <= Cardinality(HasHosts(t))
    <3>1. PICK x : ids'[t][k] \subseteq ids[t][k] \union {x}
      <4>1. Boot!Insert(i)
        BY <2>2 DEF Boot!RunSeed
      <4> QED BY <2>2, <4>1, Inserted
    <3>2. /\ IsFiniteSet(ids[t][k] \union {x})
          /\ Cardinality(ids[t][k] \union {x}) = n(t, k) \/ Cardinality(ids[t][k] \union {x}) = n(t, k) + 1
      BY <1>7, FS_AddElement
    <3>3. /\ IsFiniteSet(ids'[t][k]) /\ Cardinality(ids'[t][k]) \in Nat
          /\ Cardinality(ids'[t][k]) <= Cardinality(ids[t][k] \union {x})
      BY <3>1, <3>2, FS_Subset, FS_CardinalityType
    <3>4. HostOf[i] \in HasHosts(t) \ HadHosts(t)
      <4>1. HostOf[i] \notin HadHosts(t)
        <5>1. HostOf[i] \notin flag /\ bootAt[i] = "store" /\ ~(t < step[i])
          BY <1>2, <2>2, SeedNumbers DEF Boot!RunSeed, Boot!Setup
        <5>2. \A j \in Instances : bootAt[j] \in {"seed", "store", "mark"} /\ HostOf[j] = HostOf[i] => j = i
          BY <1>2, <5>1 DEF Boot!Setup
        <5> QED BY <5>1, <5>2 DEF Past
      <4>2. HostOf[i] \in Past(t)'
        <5>1. \/ bootAt'[i] = "mark"
              \/ bootAt'[i] = "seed" /\ step'[i] = step[i] + 1
          BY <2>2 DEF Boot!RunSeed, Boot!TypeOK
        <5>2. t < step[i] + 1
          BY <2>2, SeedNumbers
        <5> QED BY <2>2, <5>1, <5>2 DEF Past
      <4> QED BY <4>1, <4>2
    <3> HIDE DEF HadHosts, HasHosts, n
    <3>5. /\ n(t, k) \in Nat /\ n(t, k) <= Cardinality(HadHosts(t))
          /\ Cardinality(HadHosts(t)) \in Nat /\ Cardinality(HasHosts(t)) \in Nat
          /\ Cardinality(HadHosts(t)) + 1 <= Cardinality(HasHosts(t))
      BY <1>6, <1>7, <3>4
    <3> QED BY <3>2, <3>3, <3>5
  <2>3. ASSUME NEW i \in Instances, Boot!RunSeed(i), t # step[i] PROVE ids'[t][k] = ids[t][k]
    <3>1. PICK v \in Boot!Tables : v = step[i]
      BY DEF Boot!TypeOK
    <3>2. Boot!Insert(i)
      BY <2>3 DEF Boot!RunSeed
    <3> QED BY <2>3, <3>1, <3>2, Inserted
  <2>4. ASSUME NEW i \in Instances,
               \/ Boot!Start(i) \/ Boot!InitializeDatabase(i)
               \/ Boot!CreateDatabase(i) \/ Boot!RunMigration(i) \/ Boot!TakeIds(i)
               \/ Boot!MarkAsInitialized(i)
               \/ Boot!Connect(i) \/ Boot!OnModuleInit(i) \/ Boot!Listen(i) \/ Boot!Stop(i)
        PROVE  ids' = ids
    BY <2>4 DEF Boot!Start, Boot!InitializeDatabase, Boot!CreateDatabase,
                Boot!RunMigration, Boot!TakeIds, Boot!MarkAsInitialized, Boot!Connect,
                Boot!OnModuleInit, Boot!Listen, Boot!Stop
  <2>5. CASE UNCHANGED Boot!vars
    BY <2>1, <2>5 DEF Boot!vars
  <2> HIDE DEF HasHosts
  <2> QED BY <1>0, <2>1, <2>2, <2>3, <2>4, <2>5 DEF Boot!Next, Boot!Go
<1> QED BY <1>3, <1>8 DEF SetUpOnce, Alone, Boot!Rows, Boot!Tables

\* Module Bootstrap counts as this one does.
LEMMA SameCardinality == \A S : Boot!Cardinality(S) = Cardinality(S)
BY DEF Cardinality, Boot!Cardinality, Boot!IsFiniteSet, IsFiniteSet

LEMMA BootInvInit == Boot!Init => BootInv
<1> SUFFICES ASSUME Boot!Init PROVE BootInv
  OBVIOUS
<1>1. /\ HostOf \in [Instances -> Hosts] /\ MaxStarts \in Nat /\ MaxErrors \in Nat
      /\ 1 \in Boot!Tables
  BY OperationsAssumption, SeedNumbers DEF Boot!HostsAssumption, Boot!BoundsAssumption
<1>2. \A t \in Boot!Tables : ids[t] = [k \in Boot!Rows(t) |-> {}]
  BY DEF Boot!Init
<1>3. Boot!TypeOK
  <2>1. \A t \in Boot!Tables : ids[t] \in [Boot!Rows(t) -> SUBSET (Nat \ {0})]
    <3>1. ASSUME NEW t \in Boot!Tables
          PROVE  [k \in Boot!Rows(t) |-> {}] \in [Boot!Rows(t) -> SUBSET (Nat \ {0})]
      OBVIOUS
    <3> QED BY <1>2, <3>1
  <2>2. /\ DOMAIN ids = Boot!Tables /\ bootNext \in [Boot!Tables -> Nat \ {0}]
        /\ bootAt \in [Instances -> Boot!Step] /\ step \in [Instances -> Boot!Tables]
        /\ took \in [Instances -> Nat \ {0}]
        /\ hooks \in [Instances -> SUBSET Hooks]
    BY <1>1 DEF Boot!Init, Boot!Step
  <2>3. starts \in 0 .. MaxStarts /\ bootFailures \in 0 .. MaxErrors
    BY <1>1 DEF Boot!Init
  <2> QED BY <2>1, <2>2, <2>3 DEF Boot!Init, Boot!TypeOK
<1>4. StartsInOrder
  BY DEF StartsInOrder, Boot!Init
<1>5. StoredInOrder /\ Numbered
  BY <1>2 DEF StoredInOrder, Numbered, Empty, Storing, Boot!Init
<1>6. SetUpOnce
  <2>1. ASSUME NEW i \in Instances PROVE bootAt[i] \notin Boot!Setup
    BY DEF Boot!Init, Boot!Setup
  <2>2. ASSUME NEW t \in Boot!Tables, NEW k \in Boot!Rows(t)
        PROVE  /\ IsFiniteSet(ids[t][k])
               /\ Cardinality(ids[t][k]) <= Cardinality(flag \union Past(t))
    <3>1. ids[t][k] = {} /\ IsFiniteSet({}) /\ Cardinality({}) = 0
      BY <1>2, FS_EmptySet
    <3>2. flag \union Past(t) \in SUBSET Hosts
      BY <1>1 DEF Past, Boot!Init
    <3>3. Cardinality(flag \union Past(t)) \in Nat
      BY <3>2, HostSets
    <3> QED BY <3>1, <3>3
  <2> QED BY <2>1, <2>2 DEF SetUpOnce
<1> QED BY <1>3, <1>4, <1>5, <1>6 DEF BootInv

LEMMA BootInvNext == BootInv /\ [Boot!Next]_(Boot!vars) => BootInv'
BY BootTypes, StartsGoOn, StoresInOrder, Numbers, SetsUpOnce DEF BootInv

LEMMA BootInvAlways == FairSpec => []BootInv
<1>1. Boot!Init /\ [][Boot!Next]_(Boot!vars) => []BootInv
  BY BootInvInit, BootInvNext, PTL
<1> QED BY <1>1, BootPart, PTL

\* A server that serves, and a working directory with the flag file, has a migrated
\* database with every row of the seed, wherever the starts before were cut off; and while
\* nothing fails and no two starts of a host meet, the seed is stored once for each host
\* (initializeDatabase, isInitialized and markAsInitialized of DatabaseSetup), for any number of
\* hosts, instances, starts and failures.
THEOREM StartsSeedOnce == FairSpec => []SeedIsSound
<1>1. BootInv => Boot!ServesSeeded
  BY DEF BootInv, StartsInOrder, Seeded, Boot!ServesSeeded
<1>2. BootInv => Boot!SeededOncePerHost
  <2> SUFFICES ASSUME BootInv, bootFailures = 0, ~overlap,
                      NEW t \in Boot!Tables, NEW k \in Boot!Rows(t)
               PROVE  Cardinality(ids[t][k]) <=
                        Cardinality(flag \union {HostOf[i] : i \in {j \in Instances : bootAt[j] \in Boot!Setup}})
    BY SameCardinality DEF Boot!SeededOncePerHost
  <2> DEFINE seeding == {HostOf[i] : i \in {j \in Instances : bootAt[j] \in Boot!Setup}}
  <2>1. /\ flag \union seeding \in SUBSET Hosts
        /\ flag \union Past(t) \in SUBSET (flag \union seeding)
    BY OperationsAssumption DEF BootInv, Boot!TypeOK, Boot!HostsAssumption, Past, Boot!Setup
  <2>2. /\ IsFiniteSet(ids[t][k])
        /\ Cardinality(ids[t][k]) <= Cardinality(flag \union Past(t))
    BY DEF BootInv, SetUpOnce
  <2> HIDE DEF seeding
  <2>3. /\ Cardinality(flag \union seeding) \in Nat
        /\ IsFiniteSet(flag \union seeding)
        /\ Cardinality(flag \union Past(t)) <= Cardinality(flag \union seeding)
    BY <2>1, HostSets
  <2>4. Cardinality(flag \union Past(t)) \in Nat /\ Cardinality(ids[t][k]) \in Nat
    BY <2>1, <2>2, <2>3, FS_Subset, FS_CardinalityType
  <2>5. Cardinality(ids[t][k]) <= Cardinality(flag \union seeding)
    BY <2>2, <2>3, <2>4
  <2> QED BY <2>5 DEF seeding
<1> QED BY <1>1, <1>2, BootInvAlways, PTL DEF SeedIsSound

\* What the seed refers to by an id is the row it means, in whatever order instances seed
\* and are cut off, as long as no createMany is rolled back after it took its ids, or takes
\* them while another has its own of that table (runSeed).
THEOREM SeedLinksResolve == FairSpec => []LinksResolve
<1>1. BootInv => Boot!LinksResolve
  <2> SUFFICES ASSUME BootInv, ~burnt, NEW t \in Boot!Tables, NEW k \in Boot!Rows(t),
                      ids[t][k] # {}, NEW r \in Boot!Seed[t].refs[k]
               PROVE  r[2] \in ids[r[1]][r[2]]
    BY DEF Boot!LinksResolve
  <2>1. r[1] \in Boot!Tables /\ r[1] < t /\ r[2] \in Boot!Rows(r[1])
    BY SeedFacts
  <2>2. Boot!Complete(r[1])
    BY <2>1 DEF BootInv, StoredInOrder
  <2>3. ids[r[1]][r[2]] # {}
    BY <2>1, <2>2 DEF Boot!Complete
  <2>4. \A q \in Boot!Rows(r[1]) : q \in ids[r[1]][q]
    BY <2>1, <2>3 DEF BootInv, Numbered, Empty
  <2> QED BY <2>1, <2>4
<1> QED BY <1>1, BootInvAlways, PTL DEF LinksResolve
-----------------------------------------------------------------------------
(***************************************************************************)
(* DataGeneration.                                                         *)
(***************************************************************************)

\* Module DataGeneration counts as this one does.
LEMMA DataCardinality == \A S : Data!Cardinality(S) = Cardinality(S)
BY DEF Cardinality, Data!Cardinality, Data!IsFiniteSet, IsFiniteSet

\* A set whose members are numbered from lo + 1 to hi.
LEMMA Numbering ==
    ASSUME NEW S, NEW T, NEW lo \in Nat, NEW hi \in Nat, lo <= hi, T = lo + 1 .. hi,
           NEW f \in Injection(S, T), f \in Surjection(S, T)
    PROVE  IsFiniteSet(S) /\ Cardinality(S) = hi - lo
<1>1. IsFiniteSet(T) /\ Cardinality(T) = hi - lo
  <2>1. lo + 1 \in Int /\ hi \in Int
    OBVIOUS
  <2>2. IsFiniteSet(T) /\ Cardinality(T) = IF lo + 1 > hi THEN 0 ELSE hi - (lo + 1) + 1
    BY <2>1, FS_Interval
  <2> QED BY <2>2
<1>2. IsFiniteSet(S) /\ Cardinality(S) = Cardinality(T)
  BY <1>1, FS_Injection
<1> QED BY <1>1, <1>2

\* The orders a script has drawn after the lo-th, up to the hi-th.
Slice(r, lo, hi) == {[run |-> r, n |-> n] : n \in lo + 1 .. hi}

LEMMA SliceFacts ==
    ASSUME NEW r, NEW lo \in Nat, NEW hi \in Nat, lo <= hi
    PROVE  /\ Data!Cardinality(Slice(r, lo, hi)) = hi - lo
           /\ {d.n : d \in Slice(r, lo, hi)} = lo + 1 .. hi
           /\ \A d \in Slice(r, lo, hi) : d.run = r /\ d.n \in lo + 1 .. hi /\ d = [run |-> r, n |-> d.n]
           /\ \A n \in lo + 1 .. hi : [run |-> r, n |-> n] \in Slice(r, lo, hi)
<1> DEFINE S == Slice(r, lo, hi)
           T == lo + 1 .. hi
           f == [d \in S |-> d.n]
<1>1. \A d \in S : d.run = r /\ d.n \in T /\ d = [run |-> r, n |-> d.n]
  BY DEF Slice
<1>2. \A n \in T : [run |-> r, n |-> n] \in S
  BY DEF Slice
<1>3. \A n \in T : \E d \in S : d.n = n
  BY <1>2
<1>4. T = lo + 1 .. hi
  OBVIOUS
<1> HIDE DEF S, T
<1>5. /\ f \in [S -> T]
      /\ \A a \in S, b \in S : f[a] = f[b] => a = b
      /\ \A n \in T : \E a \in S : f[a] = n
  BY <1>1, <1>3
<1> HIDE DEF f
<1>6. Cardinality(S) = hi - lo
  <2>1. f \in Injection(S, T) /\ f \in Surjection(S, T)
    BY <1>5 DEF Injection, Surjection, IsInjective
  <2> QED BY <1>4, <2>1, Numbering
<1>7. {d.n : d \in S} = T
  BY <1>1, <1>3
<1> QED BY <1>1, <1>2, <1>6, <1>7, DataCardinality DEF S, T

\* The least of the numbers after lo up to hi, and of two numbers.
LEMMA LeastAfter ==
    ASSUME NEW lo \in Nat, NEW hi \in Nat, lo < hi
    PROVE  Data!Min(lo + 1 .. hi) = lo + 1
<1>1. lo + 1 \in lo + 1 .. hi /\ \A y \in lo + 1 .. hi : lo + 1 =< y
  OBVIOUS
<1>2. \A x \in lo + 1 .. hi : (\A y \in lo + 1 .. hi : x =< y) => x = lo + 1
  OBVIOUS
<1> QED BY <1>1, <1>2 DEF Data!Min

LEMMA LeastOfTwo ==
    ASSUME NEW a \in Nat, NEW b \in Nat
    PROVE  /\ Data!Min({a, b}) \in {a, b}
           /\ Data!Min({a, b}) <= a /\ Data!Min({a, b}) <= b
<1>1. \E x \in {a, b} : \A y \in {a, b} : x =< y
  <2>1. a =< b \/ b =< a
    OBVIOUS
  <2> QED BY <2>1
<1>2. /\ Data!Min({a, b}) \in {a, b}
      /\ \A y \in {a, b} : Data!Min({a, b}) =< y
  BY <1>1 DEF Data!Min
<1> QED BY <1>2

-----------------------------------------------------------------------------
\* The runs of the scripts do what DataGeneration does, or nothing.
LEMMA DataPart == FairSpec => Data!Init /\ [][Data!Next]_(Data!vars)
<1>1. Init => Data!Init
  BY DEF Init
<1>2. [Next]_vars => [Data!Next]_(Data!vars)
  BY DEF Next, InStart, InScripts, InPatch, InHttp, InLists, vars, start, scripts, patch, http, lists,
         Data!vars
<1> QED BY <1>1, <1>2, PTL DEF FairSpec

LEMMA Sizes ==
    /\ "shop" \notin ScriptRuns /\ Offset \in Nat /\ MaxIncidents \in Nat
    /\ \A r \in ScriptRuns : /\ ScriptOf[r] \in Data!Scripts
                             /\ Total[ScriptOf[r]] \in Nat /\ Chunk[ScriptOf[r]] \in Nat \ {0}
BY OperationsAssumption DEF Data!RunsAssumption, Data!SizesAssumption

\* No total is above the largest.
LEMMA LargestTotal ==
    Data!Largest \in Nat /\ \A s \in Data!Scripts : Total[s] <= Data!Largest
<1> DEFINE T == {Total[s] : s \in Data!Scripts}
<1>1. PICK a \in Nat, b \in Nat, c \in Nat :
          a = Total["generate"] /\ b = Total["rebuild"] /\ c = Total["csv"]
  BY OperationsAssumption DEF Data!SizesAssumption, Data!Scripts
<1>2. T = {a, b, c}
  BY <1>1 DEF Data!Scripts
<1>3. \E x \in {a, b, c} : \A y \in {a, b, c} : x >= y
  <2>1. \/ a >= b /\ a >= c
        \/ b >= a /\ b >= c
        \/ c >= a /\ c >= b
    OBVIOUS
  <2> QED BY <2>1
<1>4. Data!Max(T) \in T /\ \A y \in T : Data!Max(T) >= y
  BY <1>2, <1>3 DEF Data!Max
<1>5. Data!Max(T) \in Nat
  BY <1>2, <1>4
<1>6. \A s \in Data!Scripts : Total[s] \in T /\ Total[s] \in Nat
  BY <1>1 DEF Data!Scripts
<1> HIDE DEF T
<1>7. Data!Max(T) \in Nat /\ \A s \in Data!Scripts : Total[s] <= Data!Max(T)
  BY <1>1, <1>4, <1>5, <1>6
<1> QED BY <1>7 DEF T, Data!Largest

LEMMA DrawsAre == \A q \in ScriptRuns, k \in 1 .. Data!Largest : [run |-> q, n |-> k] \in Data!Draws
BY DEF Data!Draws

LEMMA DrawsStay == Data!Draws' = Data!Draws
BY DEF Data!Draws

\* What a script draws up to its total is a draw.
LEMMA Drawable ==
    ASSUME NEW r \in ScriptRuns, NEW lo \in Nat, NEW hi \in Nat, hi <= Total[ScriptOf[r]]
    PROVE  Slice(r, lo, hi) \subseteq Data!Draws
<1>1. PICK m \in Nat : m = Data!Largest /\ Total[ScriptOf[r]] <= m /\ Total[ScriptOf[r]] \in Nat
  BY LargestTotal, Sizes
<1>2. \A n \in lo + 1 .. hi : n \in 1 .. m
  BY <1>1
<1>3. \A n \in 1 .. m : [run |-> r, n |-> n] \in Data!Draws
  BY <1>1, DrawsAre, Zenon
<1> QED BY <1>2, <1>3 DEF Slice

Nums(r) == {orders[id].n : id \in Data!OrdersOf(r)}
ItemNums(r) == {i.draw.n : i \in Data!ItemsOf(r)}

\* How far the arrays of a script reach.
Upto(r) == processed[r] + (IF scriptAt[r] = "save" THEN Data!ChunkOf(r) ELSE 0)

\* What it holds is what follows what it has stored; and if its ids are right, the next
\* order gets the id that its first draw expects.
Follows(r, lo) ==
    /\ lo <= Upto(r)
    /\ held[r] = Slice(r, lo, Upto(r))
    /\ Nums(r) = 1 .. lo
    /\ r \in alone => scriptAt[r] \in {"draw", "save", "rest"} /\ orderNext = Data!Expected(r, lo + 1)

\* The arrays are empty but for the time between a batch and its end; a script that has not
\* come to its orders has none, and one with a rest is through.
RunInv(r) ==
    /\ scriptAt[r] \notin {"done", "failed"} => \E lo \in Nat : Follows(r, lo)
    /\ scriptAt[r] \notin {"save", "rest", "done", "failed"} =>
           \/ held[r] = {}
           \/ scriptAt[r] = "draw" /\ ScriptOf[r] = "csv" /\ processed[r] = Total[ScriptOf[r]]
    /\ scriptAt[r] \in {"idle", "users", "products", "variants", "load"} => processed[r] = 0
    /\ scriptAt[r] = "rest" => processed[r] = Total[ScriptOf[r]]
    /\ scriptAt[r] = "done" => Nums(r) = 1 .. Total[ScriptOf[r]]
    /\ scriptAt[r] \in {"idle", "users", "products"} => r \notin full

\* No draw is stored twice.
StoredOnce == \A r \in ScriptRuns : \A a \in Data!OrdersOf(r), b \in Data!OrdersOf(r) :
    orders[a].n = orders[b].n => a = b

DataInv ==
    /\ Data!TypeOK /\ orderNext # 0
    /\ DOMAIN processed = ScriptRuns /\ DOMAIN held = ScriptRuns
    /\ (\A r \in ScriptRuns : RunInv(r)) /\ StoredOnce
    /\ Data!StoredTogether /\ Data!ItemsMatch

-----------------------------------------------------------------------------
\* What a transaction stores: the orders of the arrays under the next ids, and their items.
LEMMA StoreEffect ==
    ASSUME Data!TypeOK, orderNext # 0, NEW r \in ScriptRuns, NEW lo \in Nat, NEW hi \in Nat, lo <= hi,
           held[r] = Slice(r, lo, hi), Data!Store(r)
    PROVE  /\ Data!NewIds(r) = orderNext .. orderNext + (hi - lo) - 1
           /\ orderNext' = orderNext + (hi - lo)
           /\ DOMAIN orders' = DOMAIN orders \union Data!NewIds(r)
           /\ \A id \in Data!NewIds(r) :
                  /\ id \notin DOMAIN orders
                  /\ orders'[id] = [run |-> r, n |-> lo + 1 + (id - orderNext)]
           /\ \A id \in DOMAIN orders : orders'[id] = orders[id]
           /\ items' = items \union {[order |-> Data!Expected(r, d.n), draw |-> d] : d \in held[r]}
           /\ alone' = alone \intersect {r}
<1>1. Data!Cardinality(held[r]) = hi - lo
  BY SliceFacts
<1>2. orderNext \in Nat \ {0} /\ DOMAIN orders \subseteq 1 .. orderNext - 1
  BY DEF Data!TypeOK
<1>3. /\ Data!NewIds(r) = orderNext .. orderNext + (hi - lo) - 1
      /\ orderNext' = orderNext + (hi - lo)
  BY <1>1 DEF Data!NewIds, Data!Store, Data!InsertOrders
<1>4. \A id \in Data!NewIds(r) : id \notin DOMAIN orders
  BY <1>2, <1>3
<1>5. orders' = [id \in DOMAIN orders \union Data!NewIds(r) |->
                    IF id \in Data!NewIds(r) THEN [run |-> r, n |-> Data!Lowest(r) + id - orderNext]
                    ELSE orders[id]]
  BY DEF Data!Store, Data!InsertOrders
<1>6. ASSUME NEW id \in Data!NewIds(r)
      PROVE  orders'[id] = [run |-> r, n |-> lo + 1 + (id - orderNext)]
  <2>1. lo < hi /\ id \in Int
    BY <1>2, <1>3
  <2>2. Data!Lowest(r) = lo + 1
    <3> DEFINE S == {d.n : d \in held[r]}
    <3>1. S = lo + 1 .. hi
      <4> DEFINE T == lo + 1 .. hi
      <4>1. /\ \A d \in Slice(r, lo, hi) : d.n \in T
            /\ \A n \in T : [run |-> r, n |-> n] \in Slice(r, lo, hi)
        BY SliceFacts
      <4>2. \A n \in T : \E d \in held[r] : d.n = n
        <5> HIDE DEF T
        <5>1. ASSUME NEW n \in T PROVE \E d \in held[r] : d.n = n
          <6>1. [run |-> r, n |-> n] \in held[r] /\ [run |-> r, n |-> n].n = n
            BY <4>1
          <6> QED BY <6>1
        <5> QED BY <5>1
      <4> HIDE DEF T
      <4>3. S = T
        BY <4>1, <4>2
      <4> QED BY <4>3 DEF T
    <3>2. Data!Lowest(r) = Data!Min(S)
      BY DEF Data!Lowest
    <3> HIDE DEF S
    <3>3. Data!Min(S) = lo + 1
      BY <2>1, <3>1, LeastAfter
    <3> QED BY <3>2, <3>3
  <2>3. Data!Lowest(r) + id - orderNext = lo + 1 + (id - orderNext)
    BY <1>2, <2>1, <2>2
  <2> QED BY <1>5, <2>3
<1>7. \A id \in DOMAIN orders : orders'[id] = orders[id]
  BY <1>4, <1>5
<1>8. DOMAIN orders' = DOMAIN orders \union Data!NewIds(r)
  BY <1>5
<1> QED BY <1>3, <1>4, <1>6, <1>7, <1>8 DEF Data!Store, Data!InsertOrders, Data!InsertItems

\* So it adds the numbers it holds to those stored, once each, and changes nobody else's.
LEMMA StoreNumbers ==
    ASSUME Data!TypeOK, orderNext # 0, NEW r \in ScriptRuns, NEW lo \in Nat, NEW hi \in Nat, lo <= hi,
           held[r] = Slice(r, lo, hi), Data!Store(r), Nums(r) = 1 .. lo, StoredOnce
    PROVE  /\ Nums(r)' = 1 .. hi
           /\ \A q \in ScriptRuns : q # r => Nums(q)' = Nums(q)
           /\ StoredOnce'
<1>0. orderNext \in Nat \ {0}
  BY DEF Data!TypeOK
<1> DEFINE new == orderNext .. orderNext + (hi - lo) - 1
<1>1. /\ DOMAIN orders' = DOMAIN orders \union new
      /\ \A id \in new : id \notin DOMAIN orders /\ orders'[id] = [run |-> r, n |-> lo + 1 + (id - orderNext)]
      /\ \A id \in DOMAIN orders : orders'[id] = orders[id]
  <2>1. Data!NewIds(r) = new
    BY StoreEffect, Zenon
  <2> HIDE DEF new
  <2> QED BY <2>1, StoreEffect, Zenon
<1>2. \A id \in new : /\ orders'[id].run = r
                      /\ orders'[id].n = lo + 1 + (id - orderNext)
  <2> HIDE DEF new
  <2> QED BY <1>1
<1>3. \A id \in new : id \in Int /\ lo + 1 + (id - orderNext) \in lo + 1 .. hi
  BY <1>0
<1>4. \A n \in lo + 1 .. hi : /\ orderNext + (n - lo - 1) \in new
                              /\ lo + 1 + ((orderNext + (n - lo - 1)) - orderNext) = n
  BY <1>0
<1> DEFINE old(q) == {id \in DOMAIN orders : orders[id].run = q}
           now(q) == {id \in DOMAIN orders' : orders'[id].run = q}
<1>5. \A q : Data!OrdersOf(q) = old(q)
  BY DEF Data!OrdersOf
<1>6. \A q : Nums(q) = {orders[id].n : id \in old(q)} /\ Nums(q)' = {orders'[id].n : id \in now(q)}
  BY DEF Nums, Data!OrdersOf
<1> HIDE DEF new
<1>7. now(r) = old(r) \union new /\ \A q : q # r => now(q) = old(q)
  BY <1>1, <1>2
<1>8. \A q \in ScriptRuns : q # r => Nums(q)' = Nums(q)
  <2> SUFFICES ASSUME NEW q \in ScriptRuns, q # r
               PROVE  {orders'[id].n : id \in now(q)} = {orders[id].n : id \in old(q)}
    BY <1>6
  <2>1. \A id \in old(q) : orders'[id] = orders[id]
    BY <1>1
  <2>2. now(q) = old(q)
    BY <1>7
  <2> HIDE DEF now, old
  <2> QED BY <2>1, <2>2
<1>9. Nums(r)' = 1 .. hi
  <2>1. \A id \in old(r) : orders'[id] = orders[id]
    BY <1>1
  <2>2. {orders[id].n : id \in old(r)} = 1 .. lo
    BY <1>6
  <2> HIDE DEF now, old
  <2>3. ASSUME NEW n \in {orders'[id].n : id \in now(r)} PROVE n \in 1 .. hi
    <3>1. PICK id \in now(r) : n = orders'[id].n
      OBVIOUS
    <3>2. CASE id \in old(r)
      <4>1. n \in 1 .. lo
        BY <2>1, <2>2, <3>1, <3>2
      <4> QED BY <4>1
    <3>3. CASE id \in new
      <4>1. n \in lo + 1 .. hi
        BY <1>2, <1>3, <3>1, <3>3
      <4> QED BY <4>1
    <3> QED BY <1>7, <3>2, <3>3
  <2>4. ASSUME NEW n \in 1 .. hi PROVE n \in {orders'[id].n : id \in now(r)}
    <3>1. CASE n \in 1 .. lo
      <4>1. PICK id \in old(r) : n = orders[id].n
        BY <2>2, <3>1
      <4> QED BY <1>7, <2>1, <4>1
    <3>2. CASE n \in lo + 1 .. hi
      <4>1. PICK id \in new : lo + 1 + (id - orderNext) = n
        BY <1>4, <3>2
      <4> QED BY <1>2, <1>7, <4>1
    <3>3. n \in 1 .. lo \/ n \in lo + 1 .. hi
      OBVIOUS
    <3> QED BY <3>1, <3>2, <3>3
  <2>5. {orders'[id].n : id \in now(r)} = 1 .. hi
    BY <2>3, <2>4
  <2> QED BY <1>6, <2>5
<1>10. StoredOnce'
  <2> SUFFICES ASSUME NEW q \in ScriptRuns, NEW a \in now(q), NEW b \in now(q),
                      orders'[a].n = orders'[b].n
               PROVE  a = b
    BY DEF StoredOnce, Data!OrdersOf
  <2>1. CASE a \in old(q) /\ b \in old(q)
    <3>1. orders'[a] = orders[a] /\ orders'[b] = orders[b]
      BY <1>1, <2>1
    <3> QED BY <1>5, <2>1, <3>1 DEF StoredOnce
  <2>2. CASE a \in new /\ b \in new
    <3>1. lo + 1 + (a - orderNext) = lo + 1 + (b - orderNext)
      BY <1>2, <2>2
    <3>2. a \in Int /\ b \in Int
      BY <1>3, <2>2
    <3> QED BY <1>0, <3>1, <3>2
  <2>3. ASSUME NEW x \in old(r), NEW y \in new, orders'[x].n = orders'[y].n PROVE FALSE
    <3>1. orders'[x].n \in 1 .. lo
      BY <1>1, <1>6, <2>3
    <3>2. orders'[y].n \in lo + 1 .. hi
      BY <1>2, <1>3
    <3> QED BY <2>3, <3>1, <3>2
  <2>4. CASE q = r
    <3> HIDE DEF now, old
    <3> QED BY <1>7, <2>1, <2>2, <2>3, <2>4
  <2>5. CASE q # r
    <3> HIDE DEF now, old
    <3> QED BY <1>7, <2>1, <2>5
  <2> QED BY <2>4, <2>5
<1> QED BY <1>8, <1>9, <1>10

\* An id is expected by adding to the count of the draw.
LEMMA ExpectedIs ==
    ASSUME NEW r \in ScriptRuns
    PROVE  \E o \in Nat : /\ \A n : Data!Expected(r, n) = o + n
                          /\ Data!FirstId(r) = o + 1
<1>1. CASE ScriptOf[r] = "rebuild"
  BY <1>1, Sizes DEF Data!Expected, Data!FirstId
<1>2. CASE ScriptOf[r] # "rebuild"
  <2>1. \A n : Data!Expected(r, n) = 0 + n
    BY <1>2 DEF Data!Expected
  <2>2. Data!FirstId(r) = 0 + 1
    BY <1>2 DEF Data!FirstId
  <2> QED BY <2>1, <2>2
<1> QED BY <1>1, <1>2

\* The items go with the orders.
LEMMA StoreItems ==
    ASSUME Data!TypeOK, orderNext # 0, NEW r \in ScriptRuns, NEW lo \in Nat, NEW hi \in Nat, lo <= hi,
           held[r] = Slice(r, lo, hi), Data!Store(r), Nums(r) = 1 .. lo, StoredOnce,
           Data!StoredTogether
    PROVE  Data!StoredTogether'
<1> DEFINE new == {[order |-> Data!Expected(r, d.n), draw |-> d] : d \in held[r]}
           itemsOf(q) == {i \in items : i.draw.run = q}
           itemsNow(q) == {i \in items' : i.draw.run = q}
<1>1. items' = items \union new
  BY StoreEffect, Zenon
<1>2. /\ \A i \in new : i.draw.run = r /\ i.draw.n \in lo + 1 .. hi
      /\ \A n \in lo + 1 .. hi : \E i \in new : i.draw.n = n
  <2>1. /\ \A d \in held[r] : d.run = r /\ d.n \in lo + 1 .. hi
        /\ \A n \in lo + 1 .. hi : [run |-> r, n |-> n] \in held[r]
    BY SliceFacts
  <2>2. \A i \in new : i.draw.run = r /\ i.draw.n \in lo + 1 .. hi
    BY <2>1
  <2>3. ASSUME NEW n \in lo + 1 .. hi PROVE \E i \in new : i.draw.n = n
    <3> DEFINE d == [run |-> r, n |-> n]
               i == [order |-> Data!Expected(r, d.n), draw |-> d]
    <3>1. d \in held[r] /\ d.n = n /\ i.draw = d
      BY <2>1
    <3>2. i \in new
      BY <3>1
    <3> HIDE DEF d, i, new
    <3> QED BY <3>1, <3>2
  <2> QED BY <2>2, <2>3
<1> HIDE DEF new
<1>3. /\ itemsNow(r) = itemsOf(r) \union new
      /\ \A q : q # r => itemsNow(q) = itemsOf(q)
  BY <1>1, <1>2
<1>4. {i.draw.n : i \in itemsOf(r)} = 1 .. lo
  BY DEF Data!StoredTogether, Nums, Data!ItemsOf
<1>5. {i.draw.n : i \in itemsNow(r)} = 1 .. hi
  <2> HIDE DEF itemsOf, itemsNow
  <2>1. ASSUME NEW n \in {i.draw.n : i \in itemsNow(r)} PROVE n \in 1 .. hi
    <3>1. n \in 1 .. lo \/ n \in lo + 1 .. hi
      BY <1>2, <1>3, <1>4
    <3> QED BY <3>1
  <2>2. ASSUME NEW n \in 1 .. hi PROVE n \in {i.draw.n : i \in itemsNow(r)}
    <3>1. n \in 1 .. lo \/ n \in lo + 1 .. hi
      OBVIOUS
    <3>2. \E i \in itemsOf(r) \union new : i.draw.n = n
      <4>1. CASE n \in 1 .. lo
        BY <1>4, <4>1
      <4>2. CASE n \in lo + 1 .. hi
        BY <1>2, <4>2
      <4> QED BY <3>1, <4>1, <4>2
    <3> QED BY <1>3, <3>2
  <2> QED BY <2>1, <2>2
<1>6. /\ Nums(r)' = 1 .. hi
      /\ \A q \in ScriptRuns : q # r => Nums(q)' = Nums(q)
  BY StoreNumbers, Zenon
<1>7. ASSUME NEW q \in ScriptRuns PROVE Nums(q)' = {i.draw.n : i \in itemsNow(q)}
  <2>1. CASE q = r
    BY <1>5, <1>6, <2>1, Zenon
  <2>2. CASE q # r
    <3>1. Nums(q) = {i.draw.n : i \in itemsOf(q)}
      BY DEF Data!StoredTogether, Nums, Data!ItemsOf
    <3> HIDE DEF itemsOf, itemsNow
    <3> QED BY <1>3, <1>6, <2>2, <3>1
  <2> QED BY <2>1, <2>2
<1> QED BY <1>7 DEF Data!StoredTogether, Nums, Data!ItemsOf

\* With the right ids, each item refers to its order.
LEMMA StoreMatches ==
    ASSUME Data!TypeOK, orderNext # 0, NEW r \in ScriptRuns, NEW lo \in Nat, NEW hi \in Nat, lo <= hi,
           held[r] = Slice(r, lo, hi), Data!Store(r), Data!ItemsMatch,
           r \in alone => orderNext = Data!Expected(r, lo + 1)
    PROVE  /\ Data!ItemsMatch'
           /\ r \in alone => orderNext' = Data!Expected(r, hi + 1)
<1>0. orderNext \in Nat \ {0}
  BY DEF Data!TypeOK
<1>1. PICK o \in Nat : \A n : Data!Expected(r, n) = o + n
  BY ExpectedIs
<1> DEFINE new == orderNext .. orderNext + (hi - lo) - 1
<1>2. /\ orderNext' = orderNext + (hi - lo)
      /\ DOMAIN orders' = DOMAIN orders \union new
      /\ \A id \in new : orders'[id] = [run |-> r, n |-> lo + 1 + (id - orderNext)]
      /\ \A id \in DOMAIN orders : orders'[id] = orders[id]
      /\ items' = items \union {[order |-> Data!Expected(r, d.n), draw |-> d] : d \in held[r]}
      /\ alone' = alone \intersect {r}
  <2>1. Data!NewIds(r) = new
    BY StoreEffect, Zenon
  <2> HIDE DEF new
  <2> QED BY <2>1, StoreEffect, Zenon
<1>3. r \in alone => orderNext' = Data!Expected(r, hi + 1)
  BY <1>0, <1>1, <1>2
<1>4. ASSUME r \in alone, NEW i \in items', i.draw.run = r
      PROVE  i.order \in DOMAIN orders' /\ orders'[i.order] = i.draw
  <2>1. CASE i \in items
    <3>1. i.order \in DOMAIN orders /\ orders[i.order] = i.draw
      BY <1>4, <2>1 DEF Data!ItemsMatch, Data!ItemsOf
    <3> HIDE DEF new
    <3> QED BY <1>2, <3>1
  <2>2. CASE i \in {[order |-> Data!Expected(r, d.n), draw |-> d] : d \in held[r]}
    <3>1. PICK d \in held[r] : i = [order |-> Data!Expected(r, d.n), draw |-> d]
      BY <2>2
    <3>2. d.n \in lo + 1 .. hi /\ d = [run |-> r, n |-> d.n]
      BY SliceFacts
    <3>3. i.order = o + d.n /\ i.draw = d
      BY <1>1, <3>1
    <3>4. orderNext = o + (lo + 1)
      BY <1>1, <1>4
    <3>5. o + d.n \in new /\ lo + 1 + ((o + d.n) - orderNext) = d.n
      BY <3>2, <3>4
    <3> HIDE DEF new
    <3>6. orders'[o + d.n] = [run |-> r, n |-> d.n]
      BY <1>2, <3>5
    <3> QED BY <1>2, <3>2, <3>3, <3>5, <3>6
  <2> QED BY <1>2, <2>1, <2>2
<1>5. Data!ItemsMatch'
  BY <1>2, <1>4 DEF Data!ItemsMatch, Data!ItemsOf
<1> QED BY <1>3, <1>5

\* What is stored is a draw.
LEMMA StoreTypes ==
    ASSUME Data!TypeOK, orderNext # 0, NEW r \in ScriptRuns, NEW lo \in Nat, NEW hi \in Nat, lo <= hi,
           hi <= Total[ScriptOf[r]], held[r] = Slice(r, lo, hi), Data!Store(r)
    PROVE  /\ orderNext' \in Nat \ {0} /\ DOMAIN orders' \subseteq 1 .. orderNext' - 1
           /\ \A id \in DOMAIN orders' : orders'[id] \in Data!Draws \union {[run |-> "shop", n |-> 1]}
           /\ \A i \in items' : i.order \in Nat \ {0} /\ i.draw \in Data!Draws
           /\ alone' \subseteq ScriptRuns
<1>0. orderNext \in Nat \ {0} /\ DOMAIN orders \subseteq 1 .. orderNext - 1
  BY DEF Data!TypeOK
<1> DEFINE new == orderNext .. orderNext + (hi - lo) - 1
<1>1. /\ orderNext' = orderNext + (hi - lo)
      /\ DOMAIN orders' = DOMAIN orders \union new
      /\ \A id \in new : orders'[id] = [run |-> r, n |-> lo + 1 + (id - orderNext)]
      /\ \A id \in DOMAIN orders : orders'[id] = orders[id]
      /\ items' = items \union {[order |-> Data!Expected(r, d.n), draw |-> d] : d \in held[r]}
      /\ alone' = alone \intersect {r}
  <2>1. Data!NewIds(r) = new
    BY StoreEffect, Zenon
  <2> HIDE DEF new
  <2> QED BY <2>1, StoreEffect, Zenon
<1>2. orderNext' \in Nat \ {0}
  BY <1>0, <1>1
<1>3. DOMAIN orders' \subseteq 1 .. orderNext' - 1
  BY <1>0, <1>1
<1>4. \A n \in lo + 1 .. hi : [run |-> r, n |-> n] \in Data!Draws
  <2>1. Slice(r, lo, hi) \subseteq Data!Draws
    BY Drawable
  <2>2. \A n \in lo + 1 .. hi : [run |-> r, n |-> n] \in Slice(r, lo, hi)
    BY SliceFacts
  <2> QED BY <2>1, <2>2
<1>5. ASSUME NEW id \in new PROVE orders'[id] \in Data!Draws
  <2>1. lo + 1 + (id - orderNext) \in lo + 1 .. hi
    BY <1>0
  <2> HIDE DEF new
  <2> QED BY <1>1, <1>4, <2>1
<1>6. \A id \in DOMAIN orders' : orders'[id] \in Data!Draws \union {[run |-> "shop", n |-> 1]}
  <2> HIDE DEF new
  <2> QED BY <1>1, <1>5 DEF Data!TypeOK
<1>7. ASSUME NEW i \in items' PROVE i.order \in Nat \ {0} /\ i.draw \in Data!Draws
  <2>1. CASE i \in items
    BY <2>1 DEF Data!TypeOK
  <2>2. CASE i \in {[order |-> Data!Expected(r, d.n), draw |-> d] : d \in held[r]}
    <3>1. PICK o \in Nat : \A n : Data!Expected(r, n) = o + n
      BY ExpectedIs
    <3>2. PICK d \in held[r] : i = [order |-> Data!Expected(r, d.n), draw |-> d]
      BY <2>2
    <3>3. d.n \in lo + 1 .. hi /\ d = [run |-> r, n |-> d.n]
      BY SliceFacts
    <3>4. i.order = o + d.n /\ i.draw = d
      BY <3>1, <3>2
    <3>5. d.n \in Nat \ {0}
      BY <3>3
    <3> QED BY <1>4, <3>3, <3>4, <3>5
  <2> QED BY <1>1, <2>1, <2>2
<1> QED BY <1>1, <1>2, <1>3, <1>6, <1>7 DEF Data!TypeOK

-----------------------------------------------------------------------------
\* Steps that store nothing.
LEMMA TablesStay ==
    ASSUME orders' = orders, items' = items
    PROVE  /\ \A q \in ScriptRuns : Nums(q)' = Nums(q)
           /\ StoredOnce => StoredOnce'
           /\ Data!StoredTogether => Data!StoredTogether'
           /\ alone' \subseteq alone /\ Data!ItemsMatch => Data!ItemsMatch'
BY DEF Nums, StoredOnce, Data!StoredTogether, Data!ItemsMatch, Data!OrdersOf, Data!ItemsOf

\* Runs that do not take the step.
LEMMA OtherRunsStay ==
    ASSUME NEW q \in ScriptRuns, RunInv(q), scriptAt'[q] = scriptAt[q], processed'[q] = processed[q],
           held'[q] = held[q], Nums(q)' = Nums(q),
           q \in full' => q \in full,
           q \in alone' => q \in alone /\ orderNext' = orderNext
    PROVE  RunInv(q)'
BY DEF RunInv, Follows, Upto, Data!ChunkOf, Data!Expected

\* The chunk of a script is none too large, and ends at its total.
LEMMA ChunkFacts ==
    ASSUME Data!TypeOK, NEW r \in ScriptRuns
    PROVE  /\ processed[r] \in Nat /\ Data!ChunkOf(r) \in Nat
           /\ Data!ChunkOf(r) <= Chunk[ScriptOf[r]]
           /\ processed[r] + Data!ChunkOf(r) <= Total[ScriptOf[r]]
           /\ Data!ChunkOf(r) = Chunk[ScriptOf[r]] \/ processed[r] + Data!ChunkOf(r) = Total[ScriptOf[r]]
           /\ Upto(r) \in Nat /\ Upto(r) <= Total[ScriptOf[r]]
<1>1. PICK p \in Nat, c \in Nat, t \in Nat :
          p = processed[r] /\ c = Chunk[ScriptOf[r]] /\ t = Total[ScriptOf[r]] /\ p <= t
  BY Sizes DEF Data!TypeOK
<1>2. Data!ChunkOf(r) = Data!Min({c, t - p})
  BY <1>1 DEF Data!ChunkOf
<1>3. t - p \in Nat
  BY <1>1
<1>4. PICK m \in {c, t - p} : m = Data!ChunkOf(r) /\ m <= c /\ m <= t - p
  BY <1>2, <1>3, LeastOfTwo
<1>5. m \in Nat /\ p + m <= t /\ (m = c \/ p + m = t)
  BY <1>1, <1>3, <1>4
<1>6. Upto(r) = p \/ Upto(r) = p + m
  BY <1>1, <1>4 DEF Upto
<1> QED BY <1>1, <1>4, <1>5, <1>6

LEMMA EmptySlice ==
    ASSUME NEW r, NEW lo \in Nat, NEW hi \in Nat, lo <= hi
    PROVE  Slice(r, lo, hi) = {} <=> lo = hi
<1>1. CASE lo = hi
  BY <1>1 DEF Slice
<1>2. CASE lo # hi
  <2>1. hi \in lo + 1 .. hi
    BY <1>2
  <2> QED BY <1>2, <2>1 DEF Slice
<1> QED BY <1>1, <1>2

LEMMA DrawnIs ==
    ASSUME Data!TypeOK, NEW r \in ScriptRuns
    PROVE  Data!Drawn(r) = Slice(r, processed[r], processed[r] + Data!ChunkOf(r))
<1>1. PICK p \in Nat, c \in Nat : p = processed[r] /\ c = Data!ChunkOf(r)
  BY ChunkFacts
<1>2. Data!Drawn(r) = {[run |-> r, n |-> p + k] : k \in 1 .. c}
  BY <1>1 DEF Data!Drawn
<1>3. \A k \in 1 .. c : p + k \in p + 1 .. p + c
  OBVIOUS
<1>4. \A n \in p + 1 .. p + c : n - p \in 1 .. c /\ p + (n - p) = n
  OBVIOUS
<1>5. Slice(r, p, p + c) \subseteq Data!Drawn(r)
  <2>1. ASSUME NEW n \in p + 1 .. p + c PROVE [run |-> r, n |-> n] \in {[run |-> r, n |-> p + k] : k \in 1 .. c}
    <3>1. PICK k \in 1 .. c : p + k = n
      BY <1>4
    <3> QED BY <3>1
  <2> QED BY <1>2, <2>1 DEF Slice
<1>6. Data!Drawn(r) \subseteq Slice(r, p, p + c)
  BY <1>2, <1>3 DEF Slice
<1> QED BY <1>1, <1>5, <1>6

\* A run that is no further than its catalogue has stored nothing, and nobody counts on it.
LEMMA Unbegun ==
    ASSUME DataInv, NEW r \in ScriptRuns,
           scriptAt[r] \in {"idle", "users", "products", "variants", "load"}
    PROVE  /\ processed[r] = 0 /\ held[r] = {} /\ Nums(r) = {} /\ r \notin alone
           /\ Slice(r, 0, 0) = {} /\ 1 .. 0 = {}
<1>1. processed[r] = 0 /\ held[r] = {}
  BY DEF DataInv, RunInv
<1>2. PICK lo \in Nat : Follows(r, lo)
  BY DEF DataInv, RunInv
<1>3. lo = 0 /\ r \notin alone
  BY <1>1, <1>2 DEF Follows, Upto
<1> QED BY <1>1, <1>2, <1>3, EmptySlice DEF Follows

LEMMA CatalogueSteps ==
    ASSUME DataInv, NEW r \in ScriptRuns, Data!Start(r) \/ Data!StoreCatalogue(r)
    PROVE  DataInv'
<1> USE DEF Data!Goes, Data!catalogue, Data!table, Data!local
<1>1. Data!TypeOK
  BY DEF DataInv
<1>2. UNCHANGED <<orders, items, orderNext, processed, held, drawnFrom, base, alone, scriptFailures, shopOrders>>
  BY DEF Data!Start, Data!StoreCatalogue
<1>3. \E s \in {"users", "products", "variants", "load"} : scriptAt' = [scriptAt EXCEPT ![r] = s]
  BY DEF Data!Start, Data!First, Data!StoreCatalogue
<1>4. scriptAt[r] \in {"idle", "users", "products", "variants", "load"}
  BY DEF Data!Start, Data!StoreCatalogue, Data!Users, Data!Products, Data!Variants
<1>5. /\ userRows' \in BOOLEAN /\ bare' \subseteq ScriptRuns /\ full' \subseteq ScriptRuns \ bare'
      /\ full' \subseteq full \union {r}
      /\ scriptAt'[r] \in {"users", "products"} => r \notin full'
  <2>1. CASE Data!Start(r)
    BY <1>1, <2>1 DEF Data!Start, Data!TypeOK, DataInv, RunInv
  <2>2. CASE Data!StoreCatalogue(r) /\ Data!Users(r)
    BY <1>1, <2>2 DEF Data!Users, Data!TypeOK, DataInv, RunInv
  <2>3. CASE Data!StoreCatalogue(r) /\ Data!Products(r)
    <3>1. r \notin full
      BY <2>3 DEF Data!Products, DataInv, RunInv
    <3> QED BY <1>1, <2>3, <3>1 DEF Data!Products, Data!TypeOK
  <2>4. CASE Data!Variants(r) /\ Data!Goes(r, "load")
    BY <1>1, <2>4 DEF Data!Variants, Data!TypeOK
  <2> QED BY <2>1, <2>2, <2>3, <2>4 DEF Data!StoreCatalogue
<1>6. scriptAt' \in [ScriptRuns -> {"idle", "users", "products", "variants", "load", "draw",
                                    "save", "rest", "done", "failed"}]
  BY <1>1, <1>3 DEF Data!TypeOK
<1>7. Data!TypeOK' /\ orderNext' # 0
  BY <1>1, <1>2, <1>5, <1>6, DrawsStay DEF Data!TypeOK, DataInv
<1>8. /\ \A q \in ScriptRuns : Nums(q)' = Nums(q)
      /\ StoredOnce' /\ Data!StoredTogether' /\ Data!ItemsMatch'
  BY <1>2, TablesStay DEF DataInv
<1>9. RunInv(r)'
  <2>1. /\ processed'[r] = 0 /\ held'[r] = {} /\ Nums(r)' = {} /\ r \notin alone'
        /\ Slice(r, 0, 0) = {} /\ 1 .. 0 = {}
    BY <1>2, <1>4, <1>8, Unbegun
  <2>2. scriptAt'[r] \in {"users", "products", "variants", "load"}
    BY <1>1, <1>3 DEF Data!TypeOK
  <2>3. Upto(r)' = 0
    BY <2>1, <2>2 DEF Upto
  <2>4. Follows(r, 0)'
    BY <2>1, <2>3 DEF Follows
  <2> QED BY <1>5, <2>1, <2>2, <2>4 DEF RunInv
<1>10. ASSUME NEW q \in ScriptRuns, q # r PROVE RunInv(q)'
  <2>1. scriptAt'[q] = scriptAt[q]
    BY <1>1, <1>3, <1>10 DEF Data!TypeOK
  <2>2. q \in full' => q \in full
    BY <1>5, <1>10
  <2> QED BY <1>2, <1>8, <2>1, <2>2, OtherRunsStay DEF DataInv
<1> QED BY <1>2, <1>7, <1>8, <1>9, <1>10 DEF DataInv

LEMMA LoadStep ==
    ASSUME DataInv, NEW r \in ScriptRuns, Data!Load(r)
    PROVE  DataInv'
<1> USE DEF Data!Goes, Data!catalogue, Data!table, Data!local
<1>1. Data!TypeOK
  BY DEF DataInv
<1>2. UNCHANGED <<userRows, bare, full, orders, items, orderNext, processed, held, scriptFailures, shopOrders>>
  BY DEF Data!Load
<1>3. /\ scriptAt[r] = "load" /\ scriptAt'[r] \in {"draw", "failed"}
      /\ \A q \in ScriptRuns : q # r => scriptAt'[q] = scriptAt[q]
      /\ scriptAt' \in [ScriptRuns -> {"idle", "users", "products", "variants", "load", "draw",
                                       "save", "rest", "done", "failed"}]
  BY <1>1 DEF Data!Load, Data!TypeOK
<1>4. /\ alone' \subseteq alone \union {r}
      /\ r \in alone' => r \in alone \/ orderNext = Data!FirstId(r)
  BY DEF Data!Load
<1>5. Data!TypeOK' /\ orderNext' # 0
  <2>1. drawnFrom' \in [ScriptRuns -> [full : SUBSET ScriptRuns, bare : SUBSET ScriptRuns]] /\ base' \in [ScriptRuns -> Nat]
    BY <1>1 DEF Data!Load, Data!TypeOK
  <2>2. alone' \subseteq ScriptRuns
    BY <1>1, <1>4 DEF Data!TypeOK
  <2> QED BY <1>1, <1>2, <1>3, <2>1, <2>2, DrawsStay DEF Data!TypeOK, DataInv
<1>6. \A q \in ScriptRuns : Nums(q)' = Nums(q)
  BY <1>2, TablesStay
<1>7. StoredOnce' /\ Data!StoredTogether'
  BY <1>2, TablesStay DEF DataInv
<1>8. /\ processed[r] = 0 /\ held[r] = {} /\ Nums(r) = {} /\ r \notin alone
      /\ Slice(r, 0, 0) = {} /\ 1 .. 0 = {}
  BY <1>3, Unbegun
<1>9. Data!ItemsMatch'
  <2>1. Data!ItemsOf(r) = {}
    <3>1. {i.draw.n : i \in Data!ItemsOf(r)} = {}
      BY <1>8 DEF DataInv, Data!StoredTogether, Nums
    <3> QED BY <3>1
  <2> QED BY <1>2, <1>4, <2>1 DEF DataInv, Data!ItemsMatch, Data!ItemsOf
<1>10. RunInv(r)'
  <2>1. Upto(r)' = 0
    BY <1>2, <1>3, <1>8 DEF Upto
  <2>2. scriptAt'[r] # "failed" /\ r \in alone' => orderNext' = Data!Expected(r, 0 + 1)
    <3>1. PICK o \in Nat : (\A n : Data!Expected(r, n) = o + n) /\ Data!FirstId(r) = o + 1
      BY ExpectedIs
    <3> QED BY <1>2, <1>4, <1>8, <3>1
  <2>3. CASE scriptAt'[r] = "draw"
    <3>1. Follows(r, 0)'
      BY <1>2, <1>6, <1>8, <2>1, <2>2, <2>3 DEF Follows, Data!Expected
    <3> QED BY <1>2, <1>8, <2>3, <3>1 DEF RunInv
  <2>4. CASE scriptAt'[r] = "failed"
    BY <2>4 DEF RunInv
  <2> QED BY <1>3, <2>3, <2>4
<1>11. ASSUME NEW q \in ScriptRuns, q # r PROVE RunInv(q)'
  <2>1. q \in alone' => q \in alone
    BY <1>4, <1>11
  <2> QED BY <1>2, <1>3, <1>6, <1>11, <2>1, OtherRunsStay DEF DataInv
<1> QED BY <1>2, <1>5, <1>7, <1>9, <1>10, <1>11 DEF DataInv

\* A step of one run that changes only its place, its arrays and its count.
LEMMA ArraySteps ==
    ASSUME DataInv, NEW r \in ScriptRuns,
           UNCHANGED <<userRows, bare, full, orders, items, orderNext, drawnFrom, base, alone,
                       scriptFailures, shopOrders>>,
           \A q \in ScriptRuns : q # r => /\ held'[q] = held[q] /\ processed'[q] = processed[q]
                                          /\ scriptAt'[q] = scriptAt[q],
           scriptAt' \in [ScriptRuns -> {"idle", "users", "products", "variants", "load", "draw",
                                         "save", "rest", "done", "failed"}],
           DOMAIN processed' = ScriptRuns, DOMAIN held' = ScriptRuns,
           processed'[r] \in 0 .. Total[ScriptOf[r]],
           held'[r] \subseteq Data!Draws, Data!Cardinality(held'[r]) <= Chunk[ScriptOf[r]],
           RunInv(r)'
    PROVE  DataInv'
<1>1. Data!TypeOK
  BY DEF DataInv
<1>2. Data!TypeOK' /\ orderNext' # 0
  <2>1. \A q \in ScriptRuns : processed'[q] \in 0 .. Total[ScriptOf[q]]
    BY <1>1 DEF Data!TypeOK
  <2>2. \A q \in ScriptRuns : held'[q] \subseteq Data!Draws /\ Data!Cardinality(held'[q]) <= Chunk[ScriptOf[q]]
    BY <1>1 DEF Data!TypeOK
  <2> QED BY <1>1, <2>1, <2>2, DrawsStay DEF Data!TypeOK, DataInv
<1>3. /\ \A q \in ScriptRuns : Nums(q)' = Nums(q)
      /\ StoredOnce' /\ Data!StoredTogether' /\ Data!ItemsMatch'
  BY TablesStay DEF DataInv
<1>4. ASSUME NEW q \in ScriptRuns, q # r PROVE RunInv(q)'
  BY <1>3, <1>4, OtherRunsStay DEF DataInv
<1> QED BY <1>2, <1>3, <1>4 DEF DataInv

\* A batch is drawn.
LEMMA DrawStep ==
    ASSUME DataInv, NEW r \in ScriptRuns, Data!DrawBatch(r)
    PROVE  DataInv'
<1> USE DEF Data!Goes, Data!catalogue, Data!table, Data!local
<1> DEFINE p == processed[r]
           c == Data!ChunkOf(r)
           t == Total[ScriptOf[r]]
<1>1. Data!TypeOK /\ RunInv(r) /\ DOMAIN held = ScriptRuns /\ DOMAIN processed = ScriptRuns
  BY DEF DataInv
<1>2. /\ p \in Nat /\ c \in Nat /\ t \in Nat /\ c <= Chunk[ScriptOf[r]] /\ p + c <= t
      /\ Chunk[ScriptOf[r]] \in Nat
  BY <1>1, ChunkFacts, Sizes
<1>3. /\ scriptAt[r] = "draw" /\ ScriptOf[r] # "csv" /\ held[r] = {} /\ Upto(r) = p
  BY <1>1, <1>2 DEF Data!DrawBatch, RunInv, Upto
<1>4. PICK lo \in Nat : Follows(r, lo)
  BY <1>1, <1>3 DEF RunInv
<1>5. lo = p
  BY <1>2, <1>3, <1>4, EmptySlice DEF Follows
<1>6. /\ UNCHANGED <<userRows, bare, full, orders, items, orderNext, drawnFrom, base, alone,
                     scriptFailures, shopOrders, processed>>
      /\ scriptAt' \in [ScriptRuns -> {"idle", "users", "products", "variants", "load", "draw",
                                       "save", "rest", "done", "failed"}]
      /\ \A q \in ScriptRuns : q # r => held'[q] = held[q] /\ scriptAt'[q] = scriptAt[q]
      /\ DOMAIN held' = ScriptRuns
      /\ \/ scriptAt'[r] = "done" /\ held'[r] = held[r] /\ p >= t
         \/ scriptAt'[r] = "save" /\ held'[r] = Data!Drawn(r)
         \/ scriptAt'[r] = "failed" /\ held'[r] = held[r]
  BY <1>1 DEF Data!DrawBatch, Data!TypeOK
<1>7. Nums(r)' = Nums(r)
  BY <1>6, TablesStay
<1>8. held'[r] \subseteq Data!Draws /\ Data!Cardinality(held'[r]) <= Chunk[ScriptOf[r]]
  <2>1. CASE held'[r] = held[r]
    BY <1>1, <2>1 DEF Data!TypeOK
  <2>2. CASE held'[r] = Data!Drawn(r)
    <3>1. held'[r] = Slice(r, p, p + c)
      BY <1>1, <2>2, DrawnIs
    <3> HIDE DEF p, c, t
    <3>2. p + c \in Nat /\ p <= p + c /\ (p + c) - p = c
      BY <1>2
    <3>3. Slice(r, p, p + c) \subseteq Data!Draws
      BY <1>2, <3>2, Drawable DEF t
    <3>4. Data!Cardinality(Slice(r, p, p + c)) = (p + c) - p
      BY <1>2, <3>2, SliceFacts
    <3> QED BY <1>2, <3>1, <3>2, <3>3, <3>4
  <2> QED BY <1>6, <2>1, <2>2
<1>9. RunInv(r)'
  <2>1. CASE scriptAt'[r] = "done" /\ held'[r] = held[r] /\ p >= t
    <3>1. p = t
      BY <1>2, <2>1
    <3>2. Nums(r)' = 1 .. Total[ScriptOf[r]]
      BY <1>4, <1>5, <1>7, <3>1 DEF Follows
    <3> QED BY <2>1, <3>2 DEF RunInv
  <2>2. CASE scriptAt'[r] = "save" /\ held'[r] = Data!Drawn(r)
    <3>1. Upto(r)' = p + c
      BY <1>6, <2>2 DEF Upto, Data!ChunkOf
    <3>2. held'[r] = Slice(r, p, p + c)
      BY <1>1, <2>2, DrawnIs
    <3>3. p <= p + c
      BY <1>2
    <3>4. Follows(r, lo)'
      BY <1>4, <1>5, <1>6, <1>7, <2>2, <3>1, <3>2, <3>3 DEF Follows, Data!Expected
    <3> QED BY <1>2, <2>2, <3>4 DEF RunInv
  <2>3. CASE scriptAt'[r] = "failed"
    BY <2>3 DEF RunInv
  <2> QED BY <1>6, <2>1, <2>2, <2>3
<1>10. processed'[r] \in 0 .. Total[ScriptOf[r]] /\ DOMAIN processed' = ScriptRuns
  BY <1>1, <1>6 DEF Data!TypeOK
<1> HIDE DEF p, c, t
<1> QED BY <1>6, <1>8, <1>9, <1>10, ArraySteps

\* Two slices that meet.
LEMMA SlicesJoin ==
    ASSUME NEW r, NEW a \in Nat, NEW b \in Nat, NEW c \in Nat, a <= b, b <= c
    PROVE  Slice(r, a, b) \union Slice(r, b, c) = Slice(r, a, c)
<1>1. \A n \in a + 1 .. c : n \in a + 1 .. b \/ n \in b + 1 .. c
  OBVIOUS
<1>2. /\ \A n \in a + 1 .. b : n \in a + 1 .. c
      /\ \A n \in b + 1 .. c : n \in a + 1 .. c
  OBVIOUS
<1> DEFINE ab == a + 1 .. b
           bc == b + 1 .. c
           ac == a + 1 .. c
<1>3. /\ \A n \in ac : n \in ab \/ n \in bc
      /\ \A n \in ab : n \in ac
      /\ \A n \in bc : n \in ac
  BY <1>1, <1>2
<1>4. /\ Slice(r, a, b) = {[run |-> r, n |-> n] : n \in ab}
      /\ Slice(r, b, c) = {[run |-> r, n |-> n] : n \in bc}
      /\ Slice(r, a, c) = {[run |-> r, n |-> n] : n \in ac}
  BY DEF Slice
<1> HIDE DEF ab, bc, ac
<1> QED BY <1>3, <1>4

\* create-csv-data.ts adds to its arrays.
LEMMA AccumulateStep ==
    ASSUME DataInv, NEW r \in ScriptRuns, Data!AccumulateBatch(r)
    PROVE  DataInv'
<1> USE DEF Data!Goes, Data!catalogue, Data!table, Data!local
<1> DEFINE p == processed[r]
           c == Data!ChunkOf(r)
           t == Total[ScriptOf[r]]
           max == Chunk[ScriptOf[r]]
<1>1. Data!TypeOK /\ RunInv(r) /\ DOMAIN held = ScriptRuns /\ DOMAIN processed = ScriptRuns
  BY DEF DataInv
<1>2. /\ p \in Nat /\ c \in Nat /\ t \in Nat /\ max \in Nat /\ c <= max /\ p + c <= t
      /\ c = max \/ p + c = t
  BY <1>1, ChunkFacts, Sizes
<1>3. scriptAt[r] = "draw" /\ ScriptOf[r] = "csv" /\ Upto(r) = p
  BY <1>1, <1>2 DEF Data!AccumulateBatch, Upto
<1>4. PICK lo \in Nat : Follows(r, lo)
  BY <1>1, <1>3 DEF RunInv
<1>5. lo <= p /\ held[r] = Slice(r, lo, p) /\ (p < t => lo = p)
  <2>1. lo <= p /\ held[r] = Slice(r, lo, p)
    BY <1>3, <1>4 DEF Follows
  <2>2. p < t => held[r] = {}
    BY <1>1, <1>2, <1>3 DEF RunInv
  <2>3. held[r] = {} => lo = p
    <3> HIDE DEF p, c, t, max
    <3>1. Slice(r, lo, p) = {} <=> lo = p
      BY <1>2, <2>1, EmptySlice
    <3> QED BY <2>1, <3>1
  <2> QED BY <2>1, <2>2, <2>3
<1>6. /\ UNCHANGED <<userRows, bare, full, orders, items, orderNext, drawnFrom, base, alone,
                     scriptFailures, shopOrders>>
      /\ scriptAt' \in [ScriptRuns -> {"idle", "users", "products", "variants", "load", "draw",
                                       "save", "rest", "done", "failed"}]
      /\ \A q \in ScriptRuns : q # r => /\ held'[q] = held[q] /\ scriptAt'[q] = scriptAt[q]
                                        /\ processed'[q] = processed[q]
      /\ DOMAIN held' = ScriptRuns /\ DOMAIN processed' = ScriptRuns
  BY <1>1 DEF Data!AccumulateBatch, Data!TypeOK
<1>7. \/ scriptAt'[r] = "rest" /\ held'[r] = held[r] /\ processed'[r] = p /\ p >= t
      \/ scriptAt'[r] = "done" /\ held'[r] = held[r] /\ processed'[r] = p /\ p >= t /\ held[r] = {}
      \/ scriptAt'[r] = "failed" /\ held'[r] = held[r] /\ processed'[r] = p
      \/ /\ scriptAt'[r] = "save" /\ held'[r] = held[r] \union Data!Drawn(r) /\ processed'[r] = p
         /\ ~(p >= t)
      \/ /\ scriptAt'[r] = "draw" /\ held'[r] = held[r] \union Data!Drawn(r) /\ processed'[r] = p + c
         /\ ~(p >= t) /\ ~(Data!Cardinality(held'[r]) >= max)
  BY <1>1, <1>3 DEF Data!AccumulateBatch, Data!TypeOK
<1>8. Nums(r)' = Nums(r)
  BY <1>6, TablesStay
<1>9. ~(p >= t) => /\ held[r] \union Data!Drawn(r) = Slice(r, p, p + c)
                   /\ Data!Cardinality(Slice(r, p, p + c)) = c
                   /\ Slice(r, p, p + c) \subseteq Data!Draws
                   /\ lo = p /\ p <= p + c /\ p + c \in Nat
  <2> SUFFICES ASSUME ~(p >= t)
               PROVE  /\ held[r] \union Data!Drawn(r) = Slice(r, p, p + c)
                      /\ Data!Cardinality(Slice(r, p, p + c)) = c
                      /\ Slice(r, p, p + c) \subseteq Data!Draws
                      /\ lo = p /\ p <= p + c /\ p + c \in Nat
    OBVIOUS
  <2>1. lo = p /\ held[r] = {}
    <3> HIDE DEF p, c, t, max
    <3>1. Slice(r, lo, p) = {} <=> lo = p
      BY <1>2, <1>5, EmptySlice
    <3> QED BY <1>2, <1>5, <3>1
  <2>2. Data!Drawn(r) = Slice(r, p, p + c)
    BY <1>1, DrawnIs
  <2> HIDE DEF p, c, t, max
  <2>3. p + c \in Nat /\ p <= p + c /\ (p + c) - p = c
    BY <1>2
  <2>4. Data!Cardinality(Slice(r, p, p + c)) = (p + c) - p
    BY <1>2, <2>3, SliceFacts
  <2>5. Slice(r, p, p + c) \subseteq Data!Draws
    BY <1>2, <2>3, Drawable DEF t
  <2> QED BY <2>1, <2>2, <2>3, <2>4, <2>5
<1>10. held'[r] \subseteq Data!Draws /\ Data!Cardinality(held'[r]) <= Chunk[ScriptOf[r]]
  <2>1. CASE held'[r] = held[r]
    BY <1>1, <2>1 DEF Data!TypeOK
  <2>2. CASE held'[r] = held[r] \union Data!Drawn(r) /\ ~(p >= t)
    <3> HIDE DEF p, c, t
    <3> QED BY <1>2, <1>9, <2>2
  <2> HIDE DEF p, c, t, max
  <2> QED BY <1>7, <2>1, <2>2
<1>11. processed'[r] \in 0 .. t
  <2> HIDE DEF p, c, t, max
  <2>1. p \in 0 .. t /\ p + c \in 0 .. t
    BY <1>2
  <2> QED BY <1>7, <2>1
<1>12. RunInv(r)'
  <2>1. CASE scriptAt'[r] = "rest" /\ held'[r] = held[r] /\ processed'[r] = p /\ p >= t
    <3>1. p = t
      BY <1>2, <2>1
    <3>2. Upto(r)' = p
      BY <1>2, <2>1 DEF Upto
    <3>3. Follows(r, lo)'
      BY <1>3, <1>4, <1>5, <1>6, <1>8, <2>1, <3>2 DEF Follows, Data!Expected
    <3> QED BY <2>1, <3>1, <3>3 DEF RunInv
  <2>2. CASE scriptAt'[r] = "done" /\ p >= t /\ held[r] = {}
    <3>1. p = t /\ lo = p
      <4> HIDE DEF p, c, t, max
      <4>1. Slice(r, lo, p) = {} <=> lo = p
        BY <1>2, <1>5, EmptySlice
      <4> QED BY <1>2, <1>5, <2>2, <4>1
    <3>2. Nums(r)' = 1 .. Total[ScriptOf[r]]
      BY <1>4, <1>8, <3>1 DEF Follows
    <3> QED BY <2>2, <3>2 DEF RunInv
  <2>3. CASE scriptAt'[r] = "failed"
    BY <2>3 DEF RunInv
  <2>4. CASE /\ scriptAt'[r] = "save" /\ held'[r] = held[r] \union Data!Drawn(r) /\ processed'[r] = p
             /\ ~(p >= t)
    <3>1. Upto(r)' = p + c
      BY <2>4 DEF Upto, Data!ChunkOf
    <3>2. Follows(r, lo)'
      BY <1>4, <1>6, <1>8, <1>9, <2>4, <3>1 DEF Follows, Data!Expected
    <3> QED BY <2>4, <3>2 DEF RunInv
  <2>5. CASE /\ scriptAt'[r] = "draw" /\ held'[r] = held[r] \union Data!Drawn(r)
             /\ processed'[r] = p + c /\ ~(p >= t) /\ ~(Data!Cardinality(held'[r]) >= max)
    <3>1. Upto(r)' = p + c
      BY <1>2, <2>5 DEF Upto
    <3>2. Follows(r, lo)'
      BY <1>4, <1>6, <1>8, <1>9, <2>5, <3>1 DEF Follows, Data!Expected
    <3>3. p + c = t
      <4> HIDE DEF p, c, t, max
      <4> QED BY <1>2, <1>9, <2>5
    <3> QED BY <1>3, <2>5, <3>2, <3>3 DEF RunInv
  <2> HIDE DEF p, c, t, max
  <2> QED BY <1>7, <2>1, <2>2, <2>3, <2>4, <2>5
<1> HIDE DEF p, c, max
<1> QED BY <1>6, <1>10, <1>11, <1>12, ArraySteps

-----------------------------------------------------------------------------
\* What a step keeps up of everyone but the run that takes it.
LEMMA OneRunSteps ==
    ASSUME DataInv, NEW r \in ScriptRuns,
           \A q \in ScriptRuns : q # r => /\ held'[q] = held[q] /\ processed'[q] = processed[q]
                                          /\ scriptAt'[q] = scriptAt[q] /\ Nums(q)' = Nums(q)
                                          /\ q \in full' => q \in full
                                          /\ q \in alone' => q \in alone /\ orderNext' = orderNext,
           DOMAIN processed' = ScriptRuns, DOMAIN held' = ScriptRuns,
           Data!TypeOK', orderNext' # 0, RunInv(r)', StoredOnce', Data!StoredTogether', Data!ItemsMatch'
    PROVE  DataInv'
<1>1. ASSUME NEW q \in ScriptRuns, q # r PROVE RunInv(q)'
  <2>1. RunInv(q)
    BY DEF DataInv
  <2> QED BY <1>1, <2>1, OtherRunsStay
<1> QED BY <1>1 DEF DataInv

\* A transaction of a script with full arrays, or with a rest.
LEMMA StoreStep ==
    ASSUME DataInv, NEW r \in ScriptRuns, scriptAt[r] \in {"save", "rest"}, Data!Store(r)
    PROVE  /\ orderNext' \in Nat \ {0} /\ DOMAIN orders' \subseteq 1 .. orderNext' - 1
           /\ \A id \in DOMAIN orders' : orders'[id] \in Data!Draws \union {[run |-> "shop", n |-> 1]}
           /\ \A i \in items' : i.order \in Nat \ {0} /\ i.draw \in Data!Draws
           /\ alone' = alone \intersect {r}
           /\ Nums(r)' = 1 .. Upto(r)
           /\ \A q \in ScriptRuns : q # r => Nums(q)' = Nums(q)
           /\ r \in alone => orderNext' = Data!Expected(r, Upto(r) + 1)
           /\ StoredOnce' /\ Data!StoredTogether' /\ Data!ItemsMatch'
<1>1. Data!TypeOK /\ orderNext # 0 /\ StoredOnce /\ Data!StoredTogether /\ Data!ItemsMatch
  BY DEF DataInv
<1>2. PICK lo \in Nat : Follows(r, lo)
  BY DEF DataInv, RunInv
<1>3. PICK hi \in Nat : hi = Upto(r) /\ hi <= Total[ScriptOf[r]]
  BY <1>1, ChunkFacts
<1>4. /\ lo <= hi /\ held[r] = Slice(r, lo, hi) /\ Nums(r) = 1 .. lo
      /\ r \in alone => orderNext = Data!Expected(r, lo + 1)
  BY <1>2, <1>3 DEF Follows
<1>5. /\ orderNext' \in Nat \ {0} /\ DOMAIN orders' \subseteq 1 .. orderNext' - 1
      /\ \A id \in DOMAIN orders' : orders'[id] \in Data!Draws \union {[run |-> "shop", n |-> 1]}
      /\ \A i \in items' : i.order \in Nat \ {0} /\ i.draw \in Data!Draws
  BY <1>1, <1>3, <1>4, StoreTypes, Zenon
<1>6. alone' = alone \intersect {r}
  BY <1>1, <1>4, StoreEffect, Zenon
<1>7. /\ Nums(r)' = 1 .. hi /\ StoredOnce'
      /\ \A q \in ScriptRuns : q # r => Nums(q)' = Nums(q)
  BY <1>1, <1>4, StoreNumbers, Zenon
<1>8. Data!StoredTogether'
  BY <1>1, <1>4, StoreItems, Zenon
<1>9. Data!ItemsMatch' /\ (r \in alone => orderNext' = Data!Expected(r, hi + 1))
  BY <1>1, <1>4, StoreMatches, Zenon
<1> QED BY <1>3, <1>5, <1>6, <1>7, <1>8, <1>9

LEMMA SaveBatchStep ==
    ASSUME DataInv, NEW r \in ScriptRuns, Data!SaveBatch(r)
    PROVE  DataInv'
<1> USE DEF Data!Goes, Data!catalogue, Data!table, Data!local
<1>1. Data!TypeOK /\ RunInv(r) /\ DOMAIN held = ScriptRuns /\ DOMAIN processed = ScriptRuns
  BY DEF DataInv
<1>2. scriptAt[r] = "save" /\ Data!Store(r)
  BY DEF Data!SaveBatch
<1>3. PICK hi \in Nat : hi = Upto(r) /\ hi <= Total[ScriptOf[r]]
  BY <1>1, ChunkFacts
<1>4. /\ UNCHANGED <<userRows, bare, full, drawnFrom, base, scriptFailures, shopOrders>>
      /\ scriptAt' \in [ScriptRuns -> {"idle", "users", "products", "variants", "load", "draw",
                                       "save", "rest", "done", "failed"}]
      /\ \A q \in ScriptRuns : q # r => /\ held'[q] = held[q] /\ scriptAt'[q] = scriptAt[q]
                                        /\ processed'[q] = processed[q]
      /\ DOMAIN held' = ScriptRuns /\ DOMAIN processed' = ScriptRuns
      /\ scriptAt'[r] = "draw" /\ held'[r] = {}
  BY <1>1 DEF Data!SaveBatch, Data!Count, Data!TypeOK
<1>5. processed'[r] = hi
  BY <1>1, <1>2, <1>3 DEF Data!SaveBatch, Data!Count, Upto
<1>6. /\ orderNext' \in Nat \ {0} /\ DOMAIN orders' \subseteq 1 .. orderNext' - 1
      /\ \A id \in DOMAIN orders' : orders'[id] \in Data!Draws \union {[run |-> "shop", n |-> 1]}
      /\ \A i \in items' : i.order \in Nat \ {0} /\ i.draw \in Data!Draws
      /\ alone' = alone \intersect {r}
      /\ Nums(r)' = 1 .. hi
      /\ \A q \in ScriptRuns : q # r => Nums(q)' = Nums(q)
      /\ r \in alone => orderNext' = Data!Expected(r, hi + 1)
      /\ StoredOnce' /\ Data!StoredTogether' /\ Data!ItemsMatch'
  BY <1>2, <1>3, StoreStep
<1>7. RunInv(r)'
  <2>1. Upto(r)' = hi
    BY <1>4, <1>5 DEF Upto
  <2>2. held'[r] = Slice(r, hi, hi)
    BY <1>4, EmptySlice
  <2>3. Follows(r, hi)'
    BY <1>4, <1>6, <2>1, <2>2 DEF Follows, Data!Expected
  <2> QED BY <1>4, <2>3 DEF RunInv
<1>8. \A q \in ScriptRuns : processed'[q] \in 0 .. Total[ScriptOf[q]]
  <2>1. Total[ScriptOf[r]] \in Nat
    BY Sizes
  <2> QED BY <1>1, <1>3, <1>4, <1>5, <2>1 DEF Data!TypeOK
<1>9. \A q \in ScriptRuns : held'[q] \subseteq Data!Draws /\ Data!Cardinality(held'[q]) <= Chunk[ScriptOf[q]]
  <2>1. Data!Cardinality({}) = 0 /\ Chunk[ScriptOf[r]] \in Nat
    BY DataCardinality, FS_EmptySet, Sizes
  <2>2. held'[r] \subseteq Data!Draws /\ Data!Cardinality(held'[r]) <= Chunk[ScriptOf[r]]
    <3>1. PICK h : h = held'[r] /\ h = {}
      BY <1>4
    <3>2. h \subseteq Data!Draws /\ Data!Cardinality(h) <= Chunk[ScriptOf[r]]
      BY <2>1, <3>1
    <3> QED BY <3>1, <3>2, Zenon
  <2>3. ASSUME NEW q \in ScriptRuns, q # r
        PROVE  held'[q] \subseteq Data!Draws /\ Data!Cardinality(held'[q]) <= Chunk[ScriptOf[q]]
    BY <1>1, <1>4, <2>3 DEF Data!TypeOK
  <2> QED BY <2>2, <2>3
<1>10. Data!TypeOK' /\ orderNext' # 0
  BY <1>1, <1>4, <1>6, <1>8, <1>9, DrawsStay DEF Data!TypeOK
<1>11. \A q \in ScriptRuns : q # r => /\ held'[q] = held[q] /\ processed'[q] = processed[q]
                                      /\ scriptAt'[q] = scriptAt[q] /\ Nums(q)' = Nums(q)
                                      /\ q \in full' => q \in full
                                      /\ q \in alone' => q \in alone /\ orderNext' = orderNext
  BY <1>4, <1>6
<1> QED BY <1>4, <1>6, <1>7, <1>10, <1>11, OneRunSteps, Zenon

LEMMA SaveRestStep ==
    ASSUME DataInv, NEW r \in ScriptRuns, Data!SaveRest(r)
    PROVE  DataInv'
<1> USE DEF Data!Goes, Data!catalogue, Data!table, Data!local
<1>1. Data!TypeOK /\ RunInv(r) /\ DOMAIN held = ScriptRuns /\ DOMAIN processed = ScriptRuns
  BY DEF DataInv
<1>2. scriptAt[r] = "rest" /\ Data!Store(r)
  BY DEF Data!SaveRest
<1>3. /\ UNCHANGED <<userRows, bare, full, drawnFrom, base, scriptFailures, shopOrders, held, processed>>
      /\ scriptAt' \in [ScriptRuns -> {"idle", "users", "products", "variants", "load", "draw",
                                       "save", "rest", "done", "failed"}]
      /\ \A q \in ScriptRuns : q # r => scriptAt'[q] = scriptAt[q]
      /\ scriptAt'[r] = "done"
  BY <1>1 DEF Data!SaveRest, Data!TypeOK
<1>4. Upto(r) = Total[ScriptOf[r]]
  BY <1>1, <1>2, Sizes DEF Upto, RunInv
<1>5. /\ orderNext' \in Nat \ {0} /\ DOMAIN orders' \subseteq 1 .. orderNext' - 1
      /\ \A id \in DOMAIN orders' : orders'[id] \in Data!Draws \union {[run |-> "shop", n |-> 1]}
      /\ \A i \in items' : i.order \in Nat \ {0} /\ i.draw \in Data!Draws
      /\ alone' = alone \intersect {r}
      /\ Nums(r)' = 1 .. Total[ScriptOf[r]]
      /\ \A q \in ScriptRuns : q # r => Nums(q)' = Nums(q)
      /\ StoredOnce' /\ Data!StoredTogether' /\ Data!ItemsMatch'
  BY <1>2, <1>4, StoreStep
<1>6. RunInv(r)'
  BY <1>3, <1>5 DEF RunInv
<1>7. Data!TypeOK' /\ orderNext' # 0
  BY <1>1, <1>3, <1>5, DrawsStay DEF Data!TypeOK
<1> QED BY <1>1, <1>3, <1>5, <1>6, <1>7, OneRunSteps

\* A script is cut off: nothing of its place is left to keep, and the tables are as they
\* were or as after the query.
LEMMA FailStep ==
    ASSUME DataInv, NEW r \in ScriptRuns, Data!Fail(r)
    PROVE  DataInv'
<1> USE DEF Data!Goes, Data!catalogue, Data!table, Data!local
<1>1. Data!TypeOK /\ RunInv(r) /\ DOMAIN held = ScriptRuns /\ DOMAIN processed = ScriptRuns
  BY DEF DataInv
<1>2. /\ UNCHANGED <<drawnFrom, base, shopOrders, held, processed>>
      /\ scriptAt' \in [ScriptRuns -> {"idle", "users", "products", "variants", "load", "draw",
                                       "save", "rest", "done", "failed"}]
      /\ \A q \in ScriptRuns : q # r => scriptAt'[q] = scriptAt[q]
      /\ scriptAt'[r] = "failed"
  BY <1>1 DEF Data!Fail, Data!TypeOK
<1>3. scriptFailures' \in Nat /\ scriptFailures' + shopOrders' <= MaxIncidents
  BY <1>1, Sizes DEF Data!Fail, Data!TypeOK
<1>4. RunInv(r)'
  BY <1>2 DEF RunInv
<1>5. CASE UNCHANGED <<userRows, bare, full, orders, items, orderNext, alone>>
  <2>1. Data!TypeOK' /\ orderNext' # 0
    BY <1>1, <1>2, <1>3, <1>5, DrawsStay DEF Data!TypeOK, DataInv
  <2>2. /\ \A q \in ScriptRuns : Nums(q)' = Nums(q)
        /\ StoredOnce' /\ Data!StoredTogether' /\ Data!ItemsMatch'
    BY <1>5, TablesStay DEF DataInv
  <2> QED BY <1>1, <1>2, <1>4, <1>5, <2>1, <2>2, OneRunSteps
<1>6. CASE (Data!Users(r) \/ Data!Products(r) \/ Data!Variants(r)) /\ UNCHANGED <<orders, items, orderNext, alone>>
  <2>1. /\ userRows' \in BOOLEAN /\ bare' \subseteq ScriptRuns /\ full' \subseteq ScriptRuns \ bare'
        /\ full' \subseteq full \union {r}
    <3>1. CASE Data!Users(r)
      BY <1>1, <3>1 DEF Data!Users, Data!TypeOK
    <3>2. CASE Data!Products(r)
      BY <1>1, <3>2 DEF Data!Products, Data!TypeOK, RunInv
    <3>3. CASE Data!Variants(r)
      BY <1>1, <3>3 DEF Data!Variants, Data!TypeOK
    <3> QED BY <1>6, <3>1, <3>2, <3>3
  <2>2. Data!TypeOK' /\ orderNext' # 0
    BY <1>1, <1>2, <1>3, <1>6, <2>1, DrawsStay DEF Data!TypeOK, DataInv
  <2>3. /\ \A q \in ScriptRuns : Nums(q)' = Nums(q)
        /\ StoredOnce' /\ Data!StoredTogether' /\ Data!ItemsMatch'
    BY <1>6, TablesStay DEF DataInv
  <2> QED BY <1>1, <1>2, <1>4, <1>6, <2>1, <2>2, <2>3, OneRunSteps
<1>7. CASE scriptAt[r] \in {"save", "rest"} /\ Data!Store(r) /\ UNCHANGED <<userRows, bare, full>>
  <2>1. /\ orderNext' \in Nat \ {0} /\ DOMAIN orders' \subseteq 1 .. orderNext' - 1
        /\ \A id \in DOMAIN orders' : orders'[id] \in Data!Draws \union {[run |-> "shop", n |-> 1]}
        /\ \A i \in items' : i.order \in Nat \ {0} /\ i.draw \in Data!Draws
        /\ alone' = alone \intersect {r}
        /\ \A q \in ScriptRuns : q # r => Nums(q)' = Nums(q)
        /\ StoredOnce' /\ Data!StoredTogether' /\ Data!ItemsMatch'
    BY <1>7, StoreStep
  <2>2. Data!TypeOK' /\ orderNext' # 0
    BY <1>1, <1>2, <1>3, <1>7, <2>1, DrawsStay DEF Data!TypeOK
  <2> QED BY <1>1, <1>2, <1>4, <1>7, <2>1, <2>2, OneRunSteps
<1>8. CASE scriptAt[r] \in {"save", "rest"} /\ Data!Unsaved(r) /\ UNCHANGED <<userRows, bare, full>>
  <2>1. Data!Cardinality(held[r]) \in Nat
    <3>1. PICK lo \in Nat : Follows(r, lo)
      BY <1>1, <1>8 DEF RunInv
    <3>2. PICK hi \in Nat : hi = Upto(r)
      BY <1>1, ChunkFacts
    <3>3. lo <= hi /\ held[r] = Slice(r, lo, hi)
      BY <3>1, <3>2 DEF Follows
    <3>4. Data!Cardinality(Slice(r, lo, hi)) = hi - lo
      BY <3>3, SliceFacts
    <3> QED BY <3>3, <3>4
  <2>2. /\ orders' = orders /\ items' = items /\ alone' = alone \intersect {r}
        /\ orderNext' \in Nat \ {0} /\ orderNext <= orderNext'
    BY <1>1, <1>8, <2>1 DEF Data!Unsaved, Data!TypeOK, DataInv
  <2>3. DOMAIN orders' \subseteq 1 .. orderNext' - 1
    BY <1>1, <2>2 DEF Data!TypeOK
  <2>4. Data!TypeOK' /\ orderNext' # 0
    BY <1>1, <1>2, <1>3, <1>8, <2>2, <2>3, DrawsStay DEF Data!TypeOK
  <2>5. /\ \A q \in ScriptRuns : Nums(q)' = Nums(q)
        /\ StoredOnce' /\ Data!StoredTogether' /\ Data!ItemsMatch'
    BY <2>2, TablesStay DEF DataInv
  <2> QED BY <1>1, <1>2, <1>4, <1>8, <2>2, <2>4, <2>5, OneRunSteps
<1> QED BY <1>5, <1>6, <1>7, <1>8 DEF Data!Fail

\* An order of the shop.
LEMMA ShopStep ==
    ASSUME DataInv, Data!ShopOrder
    PROVE  DataInv'
<1> USE DEF Data!catalogue, Data!local
<1>1. /\ Data!TypeOK /\ orderNext \in Nat \ {0} /\ orderNext \notin DOMAIN orders
      /\ DOMAIN orders \subseteq 1 .. orderNext - 1
  BY DEF DataInv, Data!TypeOK
<1>2. /\ DOMAIN orders' = DOMAIN orders \union {orderNext}
      /\ orders'[orderNext] = [run |-> "shop", n |-> 1]
      /\ \A id \in DOMAIN orders : orders'[id] = orders[id]
      /\ orderNext' = orderNext + 1 /\ alone' = {}
      /\ UNCHANGED <<userRows, bare, full, items, scriptAt, processed, held, drawnFrom, base, scriptFailures>>
  BY <1>1 DEF Data!ShopOrder
<1>3. shopOrders' \in Nat /\ scriptFailures' + shopOrders' <= MaxIncidents
  BY <1>1, Sizes DEF Data!ShopOrder, Data!TypeOK
<1>4. Data!TypeOK' /\ orderNext' # 0
  <2>1. orderNext' \in Nat \ {0} /\ DOMAIN orders' \subseteq 1 .. orderNext' - 1
    BY <1>1, <1>2
  <2>2. \A id \in DOMAIN orders' : orders'[id] \in Data!Draws \union {[run |-> "shop", n |-> 1]}
    BY <1>1, <1>2 DEF Data!TypeOK
  <2> QED BY <1>1, <1>2, <1>3, <2>1, <2>2, DrawsStay DEF Data!TypeOK
<1>5. ASSUME NEW q \in ScriptRuns
      PROVE  /\ Data!OrdersOf(q)' = Data!OrdersOf(q)
             /\ \A id \in Data!OrdersOf(q) : orders'[id] = orders[id]
  <2>1. q # "shop"
    BY Sizes
  <2> QED BY <1>1, <1>2, <2>1 DEF Data!OrdersOf
<1>6. \A q \in ScriptRuns : Nums(q)' = Nums(q)
  BY <1>5 DEF Nums
<1>7. StoredOnce'
  BY <1>5 DEF DataInv, StoredOnce
<1>8. Data!StoredTogether'
  BY <1>2, <1>6 DEF DataInv, Data!StoredTogether, Nums, Data!ItemsOf
<1>9. Data!ItemsMatch'
  BY <1>2 DEF Data!ItemsMatch
<1>10. ASSUME NEW q \in ScriptRuns PROVE RunInv(q)'
  <2>1. RunInv(q)
    BY DEF DataInv
  <2> QED BY <1>2, <1>6, <2>1, OtherRunsStay
<1> QED BY <1>2, <1>4, <1>7, <1>8, <1>9, <1>10 DEF DataInv

LEMMA DataInvInit == Data!Init => DataInv
<1> SUFFICES ASSUME Data!Init PROVE DataInv
  OBVIOUS
<1> USE DEF Data!Init
<1>1. DOMAIN orders = {}
  OBVIOUS
<1>2. \A q : Data!OrdersOf(q) = {} /\ Data!ItemsOf(q) = {}
  BY <1>1 DEF Data!OrdersOf, Data!ItemsOf
<1>3. \A q : Nums(q) = {} /\ ItemNums(q) = {}
  BY <1>2 DEF Nums, ItemNums
<1>4. Data!TypeOK
  <2>1. Data!Cardinality({}) = 0
    BY DataCardinality, FS_EmptySet
  <2>2. ASSUME NEW q \in ScriptRuns
        PROVE  held[q] \subseteq Data!Draws /\ Data!Cardinality(held[q]) <= Chunk[ScriptOf[q]]
    <3>1. PICK h : h = held[q] /\ h = {}
      OBVIOUS
    <3>2. h \subseteq Data!Draws /\ Data!Cardinality(h) <= Chunk[ScriptOf[q]]
      BY <2>1, <3>1, Sizes
    <3> QED BY <3>1, <3>2, Zenon
  <2>3. /\ \A id \in DOMAIN orders : orders[id] \in Data!Draws \union {[run |-> "shop", n |-> 1]}
        /\ \A i \in items : i.order \in Nat \ {0} /\ i.draw \in Data!Draws
    BY <1>1
  <2>4. \A q \in ScriptRuns : processed[q] \in 0 .. Total[ScriptOf[q]]
    BY Sizes
  <2>5. /\ scriptAt \in [ScriptRuns -> {"idle", "users", "products", "variants", "load", "draw",
                                       "save", "rest", "done", "failed"}]
        /\ drawnFrom \in [ScriptRuns -> [full : SUBSET ScriptRuns, bare : SUBSET ScriptRuns]] /\ base \in [ScriptRuns -> Nat]
    OBVIOUS
  <2>6. scriptFailures + shopOrders <= MaxIncidents
    BY Sizes
  <2> QED BY <1>1, <2>2, <2>3, <2>4, <2>5, <2>6 DEF Data!TypeOK
<1>5. ASSUME NEW q \in ScriptRuns PROVE RunInv(q)
  <2>1. Slice(q, 0, 0) = {}
    BY EmptySlice
  <2>2. Follows(q, 0)
    BY <1>3, <2>1 DEF Follows, Upto
  <2> QED BY <2>2 DEF RunInv
<1>6. StoredOnce /\ Data!StoredTogether /\ Data!ItemsMatch
  BY <1>2 DEF StoredOnce, Data!StoredTogether, Data!ItemsMatch
<1> QED BY <1>4, <1>5, <1>6 DEF DataInv

LEMMA DataInvNext == DataInv /\ [Data!Next]_(Data!vars) => DataInv'
<1> SUFFICES ASSUME DataInv, [Data!Next]_(Data!vars) PROVE DataInv'
  OBVIOUS
<1>1. CASE Data!ShopOrder
  BY <1>1, ShopStep
<1>2. ASSUME NEW r \in ScriptRuns, Data!Start(r) \/ Data!Go(r) \/ Data!Fail(r) PROVE DataInv'
  BY <1>2, CatalogueSteps, LoadStep, DrawStep, AccumulateStep, SaveBatchStep, SaveRestStep, FailStep
     DEF Data!Go
<1>3. CASE UNCHANGED Data!vars
  <2>1. /\ \A q \in ScriptRuns : Nums(q)' = Nums(q)
        /\ StoredOnce' /\ Data!StoredTogether' /\ Data!ItemsMatch'
    BY <1>3, TablesStay DEF DataInv, Data!vars
  <2>2. Data!TypeOK' /\ orderNext' # 0
    BY <1>3, DrawsStay DEF DataInv, Data!TypeOK, Data!vars
  <2>3. ASSUME NEW q \in ScriptRuns PROVE RunInv(q)'
    BY <1>3, <2>1, OtherRunsStay DEF DataInv, Data!vars
  <2> QED BY <1>3, <2>1, <2>2, <2>3 DEF DataInv, Data!vars
<1> QED BY <1>1, <1>2, <1>3 DEF Data!Next

LEMMA DataInvAlways == FairSpec => []DataInv
<1>1. Data!Init /\ [][Data!Next]_(Data!vars) => []DataInv
  BY DataInvInit, DataInvNext, PTL
<1> QED BY <1>1, DataPart, PTL

\* Where a script found the counter as it expects it, and nobody else has stored orders since,
\* each item refers to the order it was drawn with, for scripts, chunks and totals of any number
\* and size (generateData computes orderId from processedCount).
THEOREM GeneratedItemsMatch == FairSpec => []ItemsMatch
BY DataInvAlways, PTL DEF DataInv, ItemsMatch

\* A script that ends without an error has stored each of its orders once, with its item, however
\* its total divides into chunks and whoever stores orders meanwhile.
THEOREM GeneratedOrdersComplete == FairSpec => []OrdersComplete
<1>1. DataInv => OrdersComplete
  <2> SUFFICES ASSUME DataInv PROVE OrdersComplete
    OBVIOUS
  <2>1. ASSUME NEW r \in ScriptRuns, scriptAt[r] = "done"
        PROVE  /\ Data!Cardinality(Data!OrdersOf(r)) = Total[ScriptOf[r]]
               /\ {orders[id].n : id \in Data!OrdersOf(r)} = 1 .. Total[ScriptOf[r]]
    <3> DEFINE S == Data!OrdersOf(r)
               t == Total[ScriptOf[r]]
               T == 0 + 1 .. t
               f == [id \in S |-> orders[id].n]
    <3>1. Nums(r) = 1 .. t /\ t \in Nat
      BY <2>1, Sizes DEF DataInv, RunInv
    <3>2. {orders[id].n : id \in S} = T /\ T = 0 + 1 .. t
      BY <3>1 DEF Nums
    <3>3. \A a \in S, b \in S : orders[a].n = orders[b].n => a = b
      BY DEF DataInv, StoredOnce
    <3> HIDE DEF S, T, t
    <3>4. f \in [S -> T] /\ (\A a \in S, b \in S : f[a] = f[b] => a = b) /\ \A n \in T : \E a \in S : f[a] = n
      BY <3>2, <3>3
    <3> HIDE DEF f
    <3>5. f \in Injection(S, T) /\ f \in Surjection(S, T)
      BY <3>4 DEF Injection, Surjection, IsInjective
    <3>6. Cardinality(S) = t - 0
      <4>1. t \in Nat /\ 0 \in Nat /\ 0 <= t /\ T = 0 + 1 .. t
        BY <3>1, <3>2
      <4> QED BY <3>5, <4>1, Numbering, Zenon
    <3> QED BY <3>1, <3>6, DataCardinality DEF S, t, Nums
  <2> QED BY <2>1 DEF OrdersComplete, Data!DoneIsComplete, DataInv
<1> QED BY <1>1, DataInvAlways, PTL
-----------------------------------------------------------------------------
(***************************************************************************)
(* Paging.                                                                 *)
(***************************************************************************)

\* The reader of a list does what Paging does, or nothing.
LEMMA ListsPart == FairSpec => Lists!Init /\ [][Lists!Next]_(Lists!vars)
<1>1. Init => Lists!Init
  BY DEF Init
<1>2. [Next]_vars => [Lists!Next]_(Lists!vars)
  BY DEF Next, InStart, InScripts, InPatch, InHttp, InLists, vars, start, scripts, patch, http, lists,
         Lists!vars
<1> QED BY <1>1, <1>2, PTL DEF FairSpec

\* Module Paging counts as this one does.
LEMMA ListsCardinality == \A S : Lists!Cardinality(S) = Cardinality(S)
BY DEF Cardinality, Lists!Cardinality, Lists!IsFiniteSet, IsFiniteSet

LEMMA ListsNumbers ==
    Ids \subseteq Nat /\ IsFiniteSet(Ids) /\ Times \subseteq Nat /\ PageSize \in Nat \ {0}
BY OperationsAssumption DEF Lists!NumbersAssumption, Lists!IsFiniteSet, IsFiniteSet

\* The rows that a listing must show no later than row i.
Before(i) == {j \in rows : createdAt[j] >= createdAt[i]}
Rank(i) == Cardinality(Before(i))

\* No two rows are of the same time.
AllDiffer == \A i, j \in Ids : i # j => createdAt[i] # createdAt[j]

LEMMA TiesOrNot == ~Lists!Ties => AllDiffer
BY DEF Lists!Ties, AllDiffer

\* The bounds of pages grow with them.
LEMMA PageBounds ==
    ASSUME NEW m \in Nat, NEW n \in Nat, m <= n
    PROVE  /\ m * PageSize \in Nat /\ n * PageSize \in Nat /\ m * PageSize <= n * PageSize
           /\ (m + 1) * PageSize = m * PageSize + PageSize
           /\ 0 * PageSize = 0
<1>1. PICK p \in Nat : p = PageSize
  BY ListsNumbers
<1>2. PICK k \in Nat : n = m + k
  <2>1. n - m \in Nat /\ n = m + (n - m)
    OBVIOUS
  <2> QED BY <2>1
<1>3. m * p \in Nat /\ k * p \in Nat /\ (m + k) * p = m * p + k * p
  OBVIOUS
<1>4. (m + 1) * p = m * p + p /\ 0 * p = 0
  OBVIOUS
<1> QED BY <1>1, <1>2, <1>3, <1>4

\* The last page is one that no row is after.
LEMMA LastPage ==
    ASSUME NEW n \in Nat, NEW all \in Nat, n >= (all + PageSize - 1) \div PageSize
    PROVE  n * PageSize >= all
<1>1. PICK p \in Nat \ {0} : p = PageSize
  BY ListsNumbers
<1>2. PICK q \in Int : q = (all + p - 1) \div p
  BY <1>1
<1>3. (q + 1) * p > all + p - 1
  BY <1>2
<1>4. q * p >= all
  <2>1. (q + 1) * p = q * p + p /\ q * p \in Int
    OBVIOUS
  <2> QED BY <1>3, <2>1
<1>5. n * p >= q * p
  <2>1. PICK k \in Nat : n = q + k
    <3>1. n - q \in Nat /\ n = q + (n - q)
      BY <1>1, <1>2
    <3> QED BY <3>1
  <2>2. n * p = q * p + k * p /\ k * p \in Nat /\ q * p \in Int
    BY <2>1
  <2> QED BY <2>2
<1> QED BY <1>1, <1>4, <1>5

\* A listing shows each row at its rank, if no two are of the same time.
LEMMA ListingRanks ==
    ASSUME Lists!TypeOK, AllDiffer, NEW f \in Lists!Listings
    PROVE  /\ DOMAIN f = 1 .. Cardinality(rows) /\ Cardinality(rows) \in Nat
           /\ \A n \in DOMAIN f : f[n] \in rows /\ Rank(f[n]) = n
           /\ \A i \in rows : \E n \in DOMAIN f : f[n] = i
<1>1. rows \subseteq Ids /\ createdAt \in [Ids -> Times] /\ Times \subseteq Nat /\ IsFiniteSet(rows)
  BY ListsNumbers, FS_Subset DEF Lists!TypeOK
<1>2. PICK c \in Nat : c = Cardinality(rows)
  BY <1>1, FS_CardinalityType
<1>3. /\ f \in [1 .. c -> rows]
      /\ \A m, n \in DOMAIN f : m < n => f[m] # f[n] /\ createdAt[f[m]] >= createdAt[f[n]]
  BY <1>2, ListsCardinality DEF Lists!Listings
<1>4. \A m, n \in 1 .. c : m # n => f[m] # f[n]
  <2>1. \A m, n \in 1 .. c : m < n => f[m] # f[n]
    BY <1>3
  <2>2. \A m, n \in 1 .. c : m # n => m < n \/ n < m
    OBVIOUS
  <2> QED BY <2>1, <2>2
<1>5. ASSUME NEW n \in 1 .. c
      PROVE  IsFiniteSet({f[m] : m \in 1 .. n}) /\ Cardinality({f[m] : m \in 1 .. n}) = n
  <2> DEFINE D == 1 .. n
             S == {f[m] : m \in D}
             g == [m \in D |-> f[m]]
  <2>1. IsFiniteSet(D) /\ Cardinality(D) = n
    <3>1. 1 \in Int /\ n \in Int /\ ~(1 > n) /\ n - 1 + 1 = n
      OBVIOUS
    <3> QED BY <3>1, FS_Interval
  <2>2. D \subseteq 1 .. c
    OBVIOUS
  <2> HIDE DEF D
  <2>3. g \in [D -> S] /\ (\A a, b \in D : g[a] = g[b] => a = b) /\ \A s \in S : \E a \in D : g[a] = s
    BY <1>4, <2>2
  <2> HIDE DEF g, S
  <2>4. g \in Surjection(D, S) /\ g \in Injection(D, S)
    BY <2>3 DEF Surjection, Injection, IsInjective
  <2>5. IsFiniteSet(S)
    BY <2>1, <2>4, FS_Surjection
  <2>6. Cardinality(S) = Cardinality(D)
    <3>1. Cardinality(D) = Cardinality(S) <=> g \in Injection(D, S)
      BY <2>1, <2>4, FS_Surjection
    <3> QED BY <2>4, <3>1
  <2> QED BY <2>1, <2>5, <2>6 DEF S, D
<1>6. \A i \in rows : \E n \in 1 .. c : f[n] = i
  <2>1. CASE c = 0
    BY <1>1, <1>2, <2>1, FS_EmptySet
  <2>2. CASE c # 0
    <3> DEFINE S == {f[m] : m \in 1 .. c}
    <3>1. S \subseteq rows
      BY <1>3
    <3>2. Cardinality(S) = Cardinality(rows)
      <4>1. c \in 1 .. c
        BY <2>2
      <4> QED BY <1>2, <1>5, <4>1
    <3>3. S = rows
      <4> HIDE DEF S
      <4> QED BY <1>1, <3>1, <3>2, FS_Subset
    <3> QED BY <3>3
  <2> QED BY <2>1, <2>2
<1>7. ASSUME NEW n \in 1 .. c PROVE Rank(f[n]) = n
  <2>1. \A m \in 1 .. c : m <= n => createdAt[f[m]] >= createdAt[f[n]]
    <3>1. f[n] \in Ids /\ createdAt[f[n]] \in Nat
      BY <1>1, <1>3
    <3>2. createdAt[f[n]] >= createdAt[f[n]]
      BY <3>1
    <3>3. \A m \in 1 .. c : m <= n => m = n \/ m < n
      OBVIOUS
    <3> QED BY <1>3, <3>2, <3>3
  <2>2. ASSUME NEW m \in 1 .. c, n < m PROVE ~(createdAt[f[m]] >= createdAt[f[n]])
    <3>1. createdAt[f[n]] >= createdAt[f[m]] /\ f[n] # f[m]
      BY <1>3, <2>2
    <3>2. f[n] \in Ids /\ f[m] \in Ids /\ createdAt[f[n]] \in Nat /\ createdAt[f[m]] \in Nat
      BY <1>1, <1>3
    <3>3. createdAt[f[n]] # createdAt[f[m]]
      BY <3>1, <3>2 DEF AllDiffer
    <3> QED BY <3>1, <3>2, <3>3
  <2>3. Before(f[n]) = {f[m] : m \in 1 .. n}
    <3>1. ASSUME NEW i \in Before(f[n]) PROVE i \in {f[m] : m \in 1 .. n}
      <4>1. i \in rows /\ createdAt[i] >= createdAt[f[n]]
        BY DEF Before
      <4>2. PICK m \in 1 .. c : f[m] = i
        BY <1>6, <4>1
      <4>3. m \in 1 .. n
        BY <2>2, <4>1, <4>2
      <4> QED BY <4>2, <4>3
    <3>2. ASSUME NEW m \in 1 .. n PROVE f[m] \in Before(f[n])
      <4>1. m \in 1 .. c /\ m <= n
        OBVIOUS
      <4> QED BY <1>3, <2>1, <4>1 DEF Before
    <3> QED BY <3>1, <3>2
  <2> QED BY <1>5, <2>3 DEF Rank
<1> QED BY <1>2, <1>3, <1>6, <1>7

\* So a page has the rows of its ranks.
LEMMA PageShows ==
    ASSUME Lists!TypeOK, AllDiffer, NEW f \in Lists!Listings, NEW i \in rows
    PROVE  i \in {f[n] : n \in {n \in DOMAIN f : Lists!Skip(page) < n /\ n <= Lists!Skip(page) + PageSize}}
               <=> Lists!Skip(page) < Rank(i) /\ Rank(i) <= Lists!Skip(page) + PageSize
<1>1. PICK k \in DOMAIN f : f[k] = i
  BY ListingRanks
<1>2. \A n \in DOMAIN f : Rank(f[n]) = n
  BY ListingRanks
<1> QED BY <1>1, <1>2

\* Ranks change with the rows that are there.
LEMMA RanksMove ==
    ASSUME Lists!TypeOK, Lists!TypeOK', createdAt' = createdAt
    PROVE  /\ \A i : Rank(i) \in Nat /\ Rank(i)' \in Nat /\ Rank(i) <= Cardinality(rows)
           /\ rows \subseteq rows' => \A i : Rank(i) <= Rank(i)'
           /\ rows' \subseteq rows => \A i : Rank(i)' <= Rank(i)
<1>1. IsFiniteSet(rows) /\ IsFiniteSet(rows')
  BY ListsNumbers, FS_Subset DEF Lists!TypeOK
<1>2. \A i : Before(i) \subseteq rows /\ Before(i)' \subseteq rows'
  BY DEF Before
<1>3. \A i : /\ IsFiniteSet(Before(i)) /\ Cardinality(Before(i)) <= Cardinality(rows)
             /\ IsFiniteSet(Before(i)')
  BY <1>1, <1>2, FS_Subset
<1>4. \A i : Rank(i) \in Nat /\ Rank(i)' \in Nat /\ Rank(i) <= Cardinality(rows)
  BY <1>3, FS_CardinalityType DEF Rank
<1>5. ASSUME rows \subseteq rows', NEW i PROVE Rank(i) <= Rank(i)'
  <2>1. Before(i) \subseteq Before(i)'
    BY <1>5 DEF Before
  <2> QED BY <1>3, <2>1, FS_Subset DEF Rank
<1>6. ASSUME rows' \subseteq rows, NEW i PROVE Rank(i)' <= Rank(i)
  <2>1. Before(i)' \subseteq Before(i)
    BY <1>6 DEF Before
  <2> QED BY <1>3, <2>1, FS_Subset DEF Rank
<1> QED BY <1>4, <1>5, <1>6

\* What the pages have shown is before the bound that they end at, until another row comes
\* in; what they have not shown is after it, until a row goes.  A count that nothing came
\* between and the page is that of the list that the page is from.
ShownBefore ==
    AllDiffer /\ "in" \notin Lists!Kinds =>
        \A n \in DOMAIN got : \A i \in got[n] : Rank(i) <= n * PageSize

ShownOnce ==
    AllDiffer /\ "in" \notin Lists!Kinds =>
        \A m, n \in DOMAIN got : m < n => got[m] \intersect got[n] = {}

RestAfter ==
    AllDiffer /\ "out" \notin Lists!Kinds =>
        \A i \in stayed : i \notin Lists!Seen => Rank(i) > Len(got) * PageSize

CountFits == open = {"find"} /\ ~raced => total = Cardinality(rows)

AllShown ==
    AllDiffer /\ "out" \notin Lists!Kinds /\ page > 0 /\ open = {} /\ ~raced /\ page * PageSize >= total
        => stayed \subseteq Lists!Seen

PageInv ==
    /\ Lists!TypeOK /\ IsFiniteSet(changed)
    /\ Len(got) = IF "find" \in open THEN page - 1 ELSE page
    /\ page = 0 => open = {} /\ changed = {}
    /\ ShownBefore /\ ShownOnce /\ RestAfter /\ CountFits /\ AllShown

\* Each row has a rank.
LEMMA Ranked ==
    ASSUME NEW R \in SUBSET Ids, NEW times \in [Ids -> Times], NEW i \in R
    PROVE  Cardinality({j \in R : times[j] >= times[i]}) > 0 * PageSize
<1> DEFINE B == {j \in R : times[j] >= times[i]}
<1>1. IsFiniteSet(B)
  BY ListsNumbers, FS_Subset
<1>2. i \in B
  <2>1. times[i] \in Nat
    BY ListsNumbers
  <2> QED BY <2>1
<1> HIDE DEF B
<1>3. Cardinality(B) \in Nat /\ Cardinality(B) # 0
  BY <1>1, <1>2, FS_CardinalityType, FS_EmptySet
<1>4. 0 * PageSize = 0
  <2>1. 0 \in Nat /\ 0 <= 0
    OBVIOUS
  <2> QED BY <2>1, PageBounds
<1> QED BY <1>3, <1>4 DEF B

LEMMA PageInvInit == Lists!Init => PageInv
<1> SUFFICES ASSUME Lists!Init PROVE PageInv
  OBVIOUS
<1>1. got = <<>> /\ Len(got) = 0 /\ DOMAIN got = {} /\ got \in Seq(SUBSET Ids)
  BY DEF Lists!Init
<1>2. Lists!TypeOK
  <2>1. Cardinality(Ids) \in Nat
    BY ListsNumbers, FS_CardinalityType
  <2>2. 0 \in 0 .. Lists!Cardinality(Ids)
    BY <2>1, ListsCardinality
  <2> QED BY <1>1, <2>2 DEF Lists!Init, Lists!TypeOK
<1>3. IsFiniteSet(changed) /\ open = {} /\ page = 0 /\ changed = {} /\ stayed = rows
  BY FS_EmptySet DEF Lists!Init
<1>4. RestAfter
  <2>1. createdAt \in [Ids -> Times] /\ rows \in SUBSET Ids
    BY <1>2 DEF Lists!TypeOK
  <2>2. \A i \in rows : Rank(i) > 0 * PageSize
    BY <2>1, Ranked DEF Rank, Before
  <2> QED BY <1>1, <1>3, <2>2 DEF RestAfter
<1>5. ShownBefore /\ ShownOnce /\ CountFits /\ AllShown
  BY <1>1, <1>3 DEF ShownBefore, ShownOnce, CountFits, AllShown
<1> QED BY <1>1, <1>2, <1>3, <1>4, <1>5 DEF PageInv

LEMMA AskStep == ASSUME PageInv, Lists!Ask PROVE PageInv'
<1>1. Lists!TypeOK' /\ IsFiniteSet(changed)'
  BY DEF PageInv, Lists!Ask, Lists!TypeOK
<1>2. Len(got)' = 0 /\ page' = 1 /\ open' = {"count", "find"}
  BY DEF PageInv, Lists!Ask
<1>3. (RestAfter /\ ShownBefore /\ ShownOnce)'
  BY DEF PageInv, RestAfter, ShownBefore, ShownOnce, Lists!Ask, Lists!Kinds, Lists!Seen, AllDiffer, Rank, Before
<1>4. (CountFits /\ AllShown)'
  BY <1>2 DEF CountFits, AllShown
<1> QED BY <1>1, <1>2, <1>3, <1>4 DEF PageInv

LEMMA TurnStep == ASSUME PageInv, Lists!Turn PROVE PageInv'
<1>1. Lists!TypeOK' /\ IsFiniteSet(changed)'
  <2>1. Lists!TypeOK /\ page \in Nat /\ Len(got) = page /\ page' = page + 1
    BY DEF PageInv, Lists!Turn, Lists!Answered, Lists!TypeOK
  <2>2. page' \in Nat /\ Len(got) \in {page' - 1, page'} \intersect Nat
    BY <2>1
  <2> QED BY <2>1, <2>2 DEF PageInv, Lists!Turn, Lists!TypeOK
<1>2. Len(got)' = page' - 1 /\ page' # 0 /\ open' = {"count", "find"}
  BY DEF PageInv, Lists!Turn, Lists!Answered, Lists!TypeOK
<1>3. (RestAfter /\ ShownBefore /\ ShownOnce)'
  BY DEF PageInv, RestAfter, ShownBefore, ShownOnce, Lists!Turn, Lists!Kinds, Lists!Seen, AllDiffer, Rank, Before
<1>4. (CountFits /\ AllShown)'
  BY <1>2 DEF CountFits, AllShown
<1> QED BY <1>1, <1>2, <1>3, <1>4 DEF PageInv

\* If a list is counted that the page was from, and what was not shown is after that page,
\* which is the last, nothing was missed.
LEMMA Counted ==
    ASSUME Lists!TypeOK', total' = Cardinality(rows'), page' * PageSize >= total', Len(got') = page',
           AllDiffer', "out" \notin Lists!Kinds', RestAfter'
    PROVE  stayed' \subseteq Lists!Seen'
<1> SUFFICES ASSUME NEW i \in stayed', i \notin Lists!Seen' PROVE FALSE
  OBVIOUS
<1>1. Rank(i)' > page' * PageSize
  BY DEF RestAfter
<1>2. Rank(i)' <= Cardinality(rows') /\ Rank(i)' \in Nat /\ Cardinality(rows') \in Nat
  <2>1. Before(i)' \subseteq rows' /\ IsFiniteSet(rows')
    BY ListsNumbers, FS_Subset DEF Before, Lists!TypeOK
  <2> QED BY <2>1, FS_Subset, FS_CardinalityType DEF Rank
<1>3. page' * PageSize \in Nat
  <2>1. page' \in Nat /\ page' <= page'
    BY DEF Lists!TypeOK
  <2> QED BY <2>1, PageBounds
<1> QED BY <1>1, <1>2, <1>3

LEMMA CountStep == ASSUME PageInv, Lists!Count PROVE PageInv'
<1>1. Cardinality(rows) \in Nat /\ Cardinality(rows) <= Cardinality(Ids) /\ Cardinality(Ids) \in Nat
  BY ListsNumbers, FS_Subset, FS_CardinalityType DEF PageInv, Lists!TypeOK
<1>2. total' = Cardinality(rows) /\ total' \in 0 .. Lists!Cardinality(Ids)
  BY <1>1, ListsCardinality DEF Lists!Count
<1>3. Lists!TypeOK' /\ IsFiniteSet(changed)'
  BY <1>2 DEF PageInv, Lists!Count, Lists!TypeOK
<1>4. Len(got)' = (IF "find" \in open' THEN page' - 1 ELSE page') /\ page' # 0
  BY DEF PageInv, Lists!Count
<1>5. (RestAfter /\ ShownBefore /\ ShownOnce)'
  BY DEF PageInv, RestAfter, ShownBefore, ShownOnce, Lists!Count, Lists!Kinds, Lists!Seen, AllDiffer, Rank, Before
<1>6. CountFits'
  BY <1>2 DEF CountFits, Lists!Count
<1>7. AllShown'
  <2> SUFFICES ASSUME AllDiffer', "out" \notin Lists!Kinds', page' > 0, open' = {}, ~raced',
                      page' * PageSize >= total'
               PROVE  (stayed \subseteq Lists!Seen)'
    BY DEF AllShown
  <2>1. total' = Cardinality(rows') /\ Len(got') = page'
    BY <1>2, <1>4 DEF Lists!Count
  <2> QED BY <1>3, <1>5, <2>1, Counted
<1> QED BY <1>3, <1>4, <1>5, <1>6, <1>7 DEF PageInv

LEMMA FindStep == ASSUME PageInv, Lists!Find PROVE PageInv'
<1> DEFINE lo == Lists!Skip(page)
<1>0. Lists!TypeOK /\ "find" \in open /\ page # 0 /\ Len(got) = page - 1
  BY DEF PageInv, Lists!Find
<1>1. PICK f \in Lists!Listings : got' = Append(got,
          {f[n] : n \in {n \in DOMAIN f : Lists!Skip(page) < n /\ n <= Lists!Skip(page) + PageSize}})
  BY DEF Lists!Find
<1>2. PICK S : S = {f[n] : n \in {n \in DOMAIN f : Lists!Skip(page) < n /\ n <= Lists!Skip(page) + PageSize}}
  OBVIOUS
<1>3. S \subseteq rows /\ rows \subseteq Ids
  BY <1>0, <1>2, ListsCardinality DEF Lists!Listings, Lists!TypeOK
<1>4. UNCHANGED <<createdAt, rows, page, total, stayed, changed, raced>> /\ open' = open \ {"find"}
  BY DEF Lists!Find
<1>5. /\ got \in Seq(SUBSET Ids) /\ got' \in Seq(SUBSET Ids) /\ Len(got') = page
      /\ DOMAIN got = 1 .. page - 1 /\ DOMAIN got' = 1 .. page
      /\ got'[page] = S /\ \A n \in 1 .. page - 1 : got'[n] = got[n]
  <2>1. got \in Seq(SUBSET Ids) /\ S \in SUBSET Ids /\ got' = Append(got, S)
    BY <1>0, <1>1, <1>2, <1>3 DEF Lists!TypeOK
  <2>2. page \in Nat
    BY <1>0 DEF Lists!TypeOK
  <2> QED BY <1>0, <2>1, <2>2, AppendProperties
<1>6. Lists!TypeOK' /\ IsFiniteSet(changed)' /\ "find" \notin open'
  BY <1>0, <1>4, <1>5 DEF PageInv, Lists!TypeOK
<1>7. PICK p \in Nat \ {0} : p = page
  BY <1>0 DEF Lists!TypeOK
<1>8. lo = (p - 1) * PageSize /\ lo \in Nat /\ lo + PageSize = p * PageSize /\ PageSize \in Nat
  <2>1. p - 1 \in Nat /\ (p - 1) + 1 = p /\ p - 1 <= p
    OBVIOUS
  <2> QED BY <1>7, <2>1, PageBounds, ListsNumbers DEF Lists!Skip
<1> HIDE DEF lo
<1>9. AllDiffer => \A i \in rows : i \in S <=> lo < Rank(i) /\ Rank(i) <= p * PageSize
  BY <1>0, <1>2, <1>8, PageShows DEF lo
<1>10. /\ Lists!Kinds' = Lists!Kinds /\ AllDiffer' = AllDiffer /\ \A i : Rank(i)' = Rank(i)
       /\ \A i : Rank(i) \in Nat
  BY <1>0, <1>4, <1>6, RanksMove DEF Lists!Kinds, AllDiffer, Rank, Before
<1>11. Lists!Seen' = Lists!Seen \union S
  <2>1. Lists!Seen = UNION {got[n] : n \in 1 .. page - 1} /\ Lists!Seen' = UNION {got'[n] : n \in 1 .. page}
    BY <1>5 DEF Lists!Seen
  <2>2. \A n \in 1 .. page : n = page \/ n \in 1 .. page - 1
    BY <1>7
  <2>3. page \in 1 .. page /\ \A n \in 1 .. page - 1 : n \in 1 .. page
    BY <1>7
  <2> DEFINE D == 1 .. page
             E == 1 .. page - 1
  <2> HIDE DEF D, E
  <2>4. /\ \A n \in D : n = page \/ n \in E
        /\ page \in D /\ \A n \in E : n \in D
        /\ got'[page] = S /\ \A n \in E : got'[n] = got[n]
    BY <1>5, <2>2, <2>3 DEF D, E
  <2>5. UNION {got'[n] : n \in D} = (UNION {got[n] : n \in E}) \union S
    BY <2>4
  <2> QED BY <2>1, <2>5, Zenon DEF D, E
<1>12. ShownBefore'
  <2> SUFFICES ASSUME AllDiffer, "in" \notin Lists!Kinds, NEW n \in 1 .. page, NEW i \in got'[n]
               PROVE  Rank(i) <= n * PageSize
    BY <1>5, <1>10 DEF ShownBefore
  <2>1. CASE n = page
    BY <1>3, <1>5, <1>7, <1>9, <2>1
  <2>2. CASE n \in 1 .. page - 1
    BY <1>5, <2>2 DEF PageInv, ShownBefore
  <2> QED BY <1>7, <2>1, <2>2
<1>13. ShownOnce'
  <2> SUFFICES ASSUME AllDiffer, "in" \notin Lists!Kinds, NEW m \in 1 .. page, NEW n \in 1 .. page, m < n
               PROVE  got'[m] \intersect got'[n] = {}
    BY <1>5, <1>10 DEF ShownOnce
  <2>0. m \in 1 .. page - 1 /\ (n = page \/ n \in 1 .. page - 1)
    BY <1>7
  <2>1. CASE n = page
    <3> SUFFICES ASSUME NEW i \in got[m], i \in S PROVE FALSE
      BY <1>5, <2>0, <2>1
    <3>1. Rank(i) <= m * PageSize
      BY <1>5, <2>0 DEF PageInv, ShownBefore
    <3>2. lo < Rank(i)
      BY <1>3, <1>9
    <3>3. m * PageSize <= (p - 1) * PageSize /\ m * PageSize \in Nat
      <4>1. m \in Nat /\ p - 1 \in Nat /\ m <= p - 1
        BY <1>7, <2>0
      <4> QED BY <4>1, PageBounds
    <3> QED BY <1>8, <1>10, <3>1, <3>2, <3>3
  <2>2. CASE n \in 1 .. page - 1
    BY <1>5, <2>0, <2>2 DEF PageInv, ShownOnce
  <2> QED BY <2>0, <2>1, <2>2
<1>14. RestAfter'
  <2> SUFFICES ASSUME AllDiffer, "out" \notin Lists!Kinds, NEW i \in stayed, i \notin Lists!Seen'
               PROVE  Rank(i) > p * PageSize
    BY <1>4, <1>5, <1>7, <1>10 DEF RestAfter
  <2>1. i \notin Lists!Seen /\ i \notin S /\ i \in rows
    BY <1>0, <1>11 DEF Lists!TypeOK
  <2>2. Rank(i) > lo
    BY <1>0, <1>7, <1>8, <2>1 DEF PageInv, RestAfter
  <2>3. p * PageSize \in Nat /\ Rank(i) \in Nat
    BY <1>10, PageBounds
  <2> QED BY <1>8, <1>9, <2>1, <2>2, <2>3
<1>15. CountFits'
  BY <1>6 DEF CountFits
<1>16. AllShown'
  <2> SUFFICES ASSUME AllDiffer', "out" \notin Lists!Kinds', page' > 0, open' = {}, ~raced',
                      page' * PageSize >= total'
               PROVE  (stayed \subseteq Lists!Seen)'
    BY DEF AllShown
  <2>1. open = {"find"}
    BY <1>0, <1>4
  <2>2. total' = Cardinality(rows') /\ Len(got') = page'
    BY <1>4, <1>5, <2>1 DEF PageInv, CountFits
  <2> QED BY <1>6, <1>14, <2>2, Counted
<1> QED BY <1>0, <1>4, <1>5, <1>6, <1>12, <1>13, <1>14, <1>15, <1>16 DEF PageInv

\* Changes of the list.
LEMMA WriteStep ==
    ASSUME PageInv, NEW i \in Ids, Lists!Insert(i) \/ Lists!Appear(i) \/ Lists!Vanish(i)
    PROVE  PageInv'
<1>0. Lists!TypeOK /\ IsFiniteSet(changed)
  BY DEF PageInv
<1>1. PICK kind \in {"in", "out"} : /\ Lists!Write(kind)
                                    /\ kind = "in" => rows' = rows \union {i}
                                    /\ kind = "out" => rows' = rows \ {i}
  BY DEF Lists!Insert, Lists!Appear, Lists!Vanish
<1>2. UNCHANGED <<createdAt, page, open, total, got>>
  BY <1>1 DEF Lists!Write
<1>3. Cardinality(changed) \in Nat /\ Lists!Cardinality(changed) = Cardinality(changed)
  BY <1>0, FS_CardinalityType, ListsCardinality
<1>4. PICK c \in Nat : changed' = IF page = 0 THEN changed ELSE changed \union {<<kind, c>>}
  BY <1>1, <1>3 DEF Lists!Write
<1>5. IsFiniteSet(changed)' /\ changed' \subseteq {"in", "out"} \X Nat
  <2>1. IsFiniteSet(changed \union {<<kind, c>>})
    BY <1>0, FS_AddElement
  <2>2. <<kind, c>> \in {"in", "out"} \X Nat /\ changed \subseteq {"in", "out"} \X Nat
    BY <1>0 DEF Lists!TypeOK
  <2> QED BY <1>0, <1>4, <2>1, <2>2
<1>6. raced' \in BOOLEAN /\ (raced => raced') /\ (Cardinality(open) = 1 => raced')
  <2>1. raced' = (raced \/ Lists!Cardinality(open) = 1)
    BY <1>1 DEF Lists!Write
  <2> QED BY <1>0, <2>1, ListsCardinality DEF Lists!TypeOK
<1>7. rows' \subseteq Ids /\ stayed' \subseteq rows' /\ (page # 0 => stayed' \subseteq stayed)
  BY <1>0, <1>1 DEF Lists!Write, Lists!TypeOK
<1>8. Lists!TypeOK'
  BY <1>0, <1>2, <1>5, <1>6, <1>7 DEF Lists!TypeOK
<1>9. /\ \A j : Rank(j) \in Nat /\ Rank(j)' \in Nat
      /\ kind = "in" => \A j : Rank(j) <= Rank(j)'
      /\ kind = "out" => \A j : Rank(j)' <= Rank(j)
  BY <1>0, <1>1, <1>2, <1>8, RanksMove
<1>10. AllDiffer' = AllDiffer /\ Lists!Seen' = Lists!Seen
  BY <1>2 DEF AllDiffer, Lists!Seen
<1>11. /\ page # 0 => Lists!Kinds' = Lists!Kinds \union {kind}
       /\ page = 0 => Lists!Kinds' = Lists!Kinds
  <2>1. <<kind, c>>[1] = kind
    OBVIOUS
  <2> QED BY <1>4, <2>1 DEF Lists!Kinds
<1>12. CASE page = 0
  <2>1. Len(got') = 0 /\ open' = {} /\ changed' = {} /\ stayed' = rows'
    BY <1>1, <1>2, <1>4, <1>12 DEF PageInv, Lists!Write
  <2>2. DOMAIN got' = {} /\ \A j \in rows' : Rank(j)' > Len(got') * PageSize
    <3>1. got' \in Seq(SUBSET Ids)
      BY <1>8 DEF Lists!TypeOK
    <3>2. \A j \in rows' : Rank(j)' > 0 * PageSize
      <4>1. createdAt' \in [Ids -> Times] /\ rows' \in SUBSET Ids
        BY <1>8 DEF Lists!TypeOK
      <4> QED BY <4>1, Ranked DEF Rank, Before
    <3> QED BY <2>1, <3>1, <3>2
  <2>3. (ShownBefore /\ ShownOnce /\ RestAfter /\ CountFits /\ AllShown)'
    BY <1>2, <1>12, <2>1, <2>2 DEF ShownBefore, ShownOnce, RestAfter, CountFits, AllShown
  <2> QED BY <1>2, <1>5, <1>8, <1>12, <2>1, <2>3 DEF PageInv
<1>13. CASE page # 0
  <2>0. got \in Seq(SUBSET Ids) /\ Len(got) \in Nat /\ DOMAIN got = 1 .. Len(got)
    BY <1>0 DEF Lists!TypeOK
  <2>1. ShownBefore'
    <3> SUFFICES ASSUME AllDiffer, "in" \notin Lists!Kinds', NEW n \in DOMAIN got, NEW j \in got[n]
                 PROVE  Rank(j)' <= n * PageSize
      BY <1>2, <1>10 DEF ShownBefore
    <3>1. kind = "out" /\ "in" \notin Lists!Kinds
      BY <1>11, <1>13
    <3>2. Rank(j) <= n * PageSize
      BY <3>1 DEF PageInv, ShownBefore
    <3>3. n * PageSize \in Nat
      BY <2>0, PageBounds
    <3> QED BY <1>9, <3>1, <3>2, <3>3
  <2>2. ShownOnce'
    BY <1>2, <1>10, <1>11, <1>13 DEF PageInv, ShownOnce
  <2>3. RestAfter'
    <3> SUFFICES ASSUME AllDiffer, "out" \notin Lists!Kinds', NEW j \in stayed', j \notin Lists!Seen
                 PROVE  Rank(j)' > Len(got) * PageSize
      BY <1>2, <1>10 DEF RestAfter
    <3>1. kind = "in" /\ "out" \notin Lists!Kinds /\ j \in stayed
      BY <1>7, <1>11, <1>13
    <3>2. Rank(j) > Len(got) * PageSize
      BY <3>1 DEF PageInv, RestAfter
    <3>3. Len(got) * PageSize \in Nat
      BY <2>0, PageBounds
    <3> QED BY <1>9, <3>1, <3>2, <3>3
  <2>4. CountFits'
    <3>1. open = {"find"} => raced'
      BY <1>6, FS_Singleton
    <3> QED BY <1>2, <3>1 DEF CountFits
  <2>5. AllShown'
    <3> SUFFICES ASSUME AllDiffer, "out" \notin Lists!Kinds', page > 0, open = {}, ~raced',
                        page * PageSize >= total
                 PROVE  stayed' \subseteq Lists!Seen
      BY <1>2, <1>10 DEF AllShown
    <3>1. "out" \notin Lists!Kinds /\ ~raced
      BY <1>6, <1>11, <1>13
    <3>2. stayed \subseteq Lists!Seen
      BY <3>1 DEF PageInv, AllShown
    <3> QED BY <1>7, <1>13, <3>2
  <2> QED BY <1>2, <1>5, <1>8, <1>13, <2>1, <2>2, <2>3, <2>4, <2>5 DEF PageInv
<1> QED BY <1>12, <1>13

LEMMA PageInvAlways == FairSpec => []PageInv
<1>1. PageInv /\ [Lists!Next]_(Lists!vars) => PageInv'
  <2> SUFFICES ASSUME PageInv, [Lists!Next]_(Lists!vars) PROVE PageInv'
    OBVIOUS
  <2>1. CASE UNCHANGED Lists!vars
    BY <2>1 DEF PageInv, Lists!vars, Lists!TypeOK, ShownBefore, ShownOnce, RestAfter, CountFits, AllShown,
                AllDiffer, Rank, Before, Lists!Kinds, Lists!Seen
  <2> QED BY <2>1, AskStep, CountStep, FindStep, TurnStep, WriteStep DEF Lists!Next
<1>2. Lists!Init /\ [][Lists!Next]_(Lists!vars) => []PageInv
  BY <1>1, PageInvInit, PTL
<1> QED BY <1>2, ListsPart, PTL

\* A reader of a list is shown a row twice only if another came in meanwhile or two are of the same
\* time, and misses one that was there all along only if one went, if the count is older than the
\* page, or for equal times: for pages of every size and lists of every length (getUserPayments,
\* findUserCoupons, findAvailableFcfsCoupons).
THEOREM PagingExplained == FairSpec => []PagesExplained
<1>1. ASSUME PageInv PROVE Lists!RepeatsExplained
  <2> SUFFICES ASSUME AllDiffer, "in" \notin Lists!Kinds,
                      NEW m \in DOMAIN got, NEW n \in DOMAIN got, m # n
               PROVE  got[m] \intersect got[n] = {}
    BY TiesOrNot DEF Lists!RepeatsExplained
  <2>1. got \in Seq(SUBSET Ids)
    BY <1>1 DEF PageInv, Lists!TypeOK
  <2>2. m \in Int /\ n \in Int
    BY <2>1
  <2>3. m < n \/ n < m
    BY <2>2
  <2> QED BY <1>1, <2>3 DEF PageInv, ShownOnce
<1>2. ASSUME PageInv PROVE Lists!MissesExplained
  <2> SUFFICES ASSUME Lists!Done, AllDiffer, "out" \notin Lists!Kinds, ~raced
               PROVE  stayed \subseteq Lists!Seen
    BY TiesOrNot DEF Lists!MissesExplained
  <2>1. page \in Nat /\ total \in Nat
    BY <1>2 DEF PageInv, Lists!TypeOK
  <2>2. page > 0 /\ open = {} /\ page >= (total + PageSize - 1) \div PageSize
    BY DEF Lists!Done, Lists!Answered, Lists!TotalPages
  <2>3. page * PageSize >= total
    BY <2>1, <2>2, LastPage
  <2> QED BY <1>2, <2>2, <2>3 DEF PageInv, AllShown
<1> QED BY <1>1, <1>2, PageInvAlways, PTL DEF PagesExplained
-----------------------------------------------------------------------------
\* The states of all parts are of the types that their modules give: the start of the server,
\* the scripts, the calls of updateOrderStatus, requests, and readers of lists.
THEOREM OperationsTypes == FairSpec => []TypeOK
<1>1. BootInv /\ DataInv /\ PatchInv /\ HttpInv /\ PageInv => TypeOK
  BY DEF BootInv, DataInv, PatchInv, HttpInv, PageInv, TypeOK
<1> QED BY <1>1, BootInvAlways, DataInvAlways, PatchAlways, HttpAlways, PageInvAlways, PTL
=============================================================================
