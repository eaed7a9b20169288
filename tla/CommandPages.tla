---------------------------- MODULE CommandPages ---------------------------
(***************************************************************************)
(* The pages that send commands: the hook use-command.ts, the console and  *)
(* the fault lab, one of them mounted at a time, and the requests they     *)
(* have sent to POST /api/command.  React commits what an event handler    *)
(* sets before the next event, so a handler is one step; effects of a      *)
(* commit that no user event caused may run later, but before the next     *)
(* commit.  The link (module TelemetryFeed) sets `connected`; what becomes *)
(* of a command at the gateway is GatewayLink's.                           *)
(***************************************************************************)
EXTENDS Integers, Sequences, FiniteSets, Places

CONSTANTS Typed,       \* what the operator types, apart from blanks
          TooLong,     \* those of more than 512 characters
          Quick,       \* commands of the quick action and preset buttons
          Blank, Null,
          MaxLog,      \* entries the console's log keeps
          MaxRecall,   \* commands its history keeps
          Ends,        \* bound: sliders are moved to their lower (1), upper (2) end
          MaxMoved,    \* bound: sliders that are off their initial value
          MaxRequests, \* bound: requests sent
          MaxVisits    \* bound: visits to a page

Commands == Typed \union Quick

Scenarios == {"cpu-overload", "star-tracker-dropout", "watchdog"}

\* What goes wrong: 400, 502 or 503, and fetch throws.
Errors == {"invalid", "undelivered", "network"}

ASSUME CommandAssumption ==
  /\ TooLong \subseteq Typed \ Quick
  /\ Blank \notin Commands /\ Blank # Null
  /\ Null \notin Commands \union Scenarios \union Errors
ASSUME LimitAssumption ==
  /\ Ends \subseteq {1, 2} /\ MaxMoved \in Nat
  /\ MaxLog \in Nat \ {0} /\ MaxRecall \in Nat \ {0}
  /\ MaxRequests \in Nat /\ MaxVisits \in Nat \ {0}

VARIABLES
  page, visit,   \* the page that is mounted, and the how many-th it is
  connected,     \* the store's flag
  loading, lastAck, lastError,        \* the hook's state, of this visit
  input, log, cmdHistory, historyIndex, \* the console's, of this visit
  due,           \* log entries of effects that have yet to run
  running, params, \* the fault lab's, of this visit
  requests       \* all requests so far

hook == <<loading, lastAck, lastError>>
console == <<input, log, cmdHistory, historyIndex, due>>
lab == <<running, params>>
where == <<page, visit>>
vars == <<where, connected, hook, console, lab, requests>>

\* The sliders of a scenario: the least and the greatest value of each.
Slider(s) == CASE s = "cpu-overload" -> [ms |-> <<50, 95>>, dur |-> <<1, 30>>]
               [] s = "star-tracker-dropout" -> [dur |-> <<1, 30>>]
               [] s = "watchdog" -> [ms |-> <<90, 99>>, dur |-> <<1, 15>>]

InitialParams == [ms |-> 85, dur |-> 10, ms2 |-> 95, dur2 |-> 5, dur3 |-> 5]

\* The command of a scenario, from the parameters as they are.
BuildCmd(s) ==
  CASE s = "cpu-overload" -> [kind |-> "CPU_LOAD", ms |-> params.ms, dur |-> params.dur]
    [] s = "star-tracker-dropout" -> [kind |-> "SENSOR_DROPOUT", dur |-> params.dur3]
    [] s = "watchdog" -> [kind |-> "CPU_LOAD", ms |-> params.ms2, dur |-> params.dur2]

Entry == [type : {"sent", "ack"}, text : Commands] \union [type : {"error"}, text : Errors]

\* A request of the fault lab carries its scenario for the command built from it.
Request == [visit : 1..MaxVisits, cmd : Commands \union Scenarios,
            answer : {"none", "ack", "invalid", "undelivered"}, \* the gateway's
            done : BOOLEAN]    \* the page has heard of it

TypeOK ==
  /\ page \in {"console", "lab"} /\ visit \in 1..MaxVisits
  /\ connected \in BOOLEAN /\ loading \in BOOLEAN
  /\ lastAck \in Commands \union Scenarios \union {Null}
  /\ lastError \in Errors \union {Null}
  /\ input \in Commands \union {Blank}
  /\ log \in Seq(Entry) /\ Len(log) <= MaxLog
  /\ cmdHistory \in Seq(Commands) /\ Len(cmdHistory) <= MaxRecall
  /\ historyIndex \in -1..MaxRecall - 1
  /\ due \in Seq(Entry)
  /\ running \in Scenarios \union {Null}
  /\ params \in [DOMAIN InitialParams -> 0..99]
  \* No slider moves another scenario: the ranges differ.
  /\ \A s \in Scenarios : \A k \in DOMAIN Slider(s) :
       BuildCmd(s)[k] \in Slider(s)[k][1] .. Slider(s)[k][2]
  /\ requests \in Seq(Request) /\ Len(requests) <= MaxRequests

Init == /\ page \in {"console", "lab"} /\ visit = 1
        /\ connected = FALSE
        /\ loading = FALSE /\ lastAck = Null /\ lastError = Null
        /\ input = Blank /\ log = <<>> /\ due = <<>>
        /\ cmdHistory = <<>> /\ historyIndex = -1
        /\ running = Null /\ params = InitialParams
        /\ requests = <<>>

\* The other page, by way of mission control: its state is new, what the old one
\* still waits for is not heard of again.
Navigate ==
  /\ visit < MaxVisits
  /\ page' \in {"console", "lab"} \ {page} /\ visit' = visit + 1
  /\ connected' = FALSE \* its hook's cleanup
  /\ loading' = FALSE /\ lastAck' = Null /\ lastError' = Null
  /\ input' = Blank /\ log' = <<>> /\ due' = <<>>
  /\ cmdHistory' = <<>> /\ historyIndex' = -1
  /\ running' = Null /\ params' = InitialParams
  /\ UNCHANGED requests

LinkChanges == /\ connected' = ~connected
               /\ UNCHANGED <<where, hook, console, lab, requests>>

----------------------------------------------------------------------------
(* The hook. *)

\* A seeded mistake: the last answer is left standing.
SendKeepingAnswer(cmd) ==
  /\ Len(requests) < MaxRequests
  /\ loading' = TRUE /\ UNCHANGED <<lastAck, lastError>>
  /\ requests' = Append(requests, [visit |-> visit, cmd |-> cmd, answer |-> "none",
                                   done |-> FALSE])

\* send() up to its await.
Send(cmd) ==
  /\ Len(requests) < MaxRequests
  /\ loading' = TRUE /\ lastAck' = Null /\ lastError' = Null
  /\ requests' = Append(requests, [visit |-> visit, cmd |-> cmd, answer |-> "none",
                                   done |-> FALSE])

\* The console's effects on lastAck and on lastError, which run when a commit
\* has changed them: what they add to the log.
Effects(ack, error) ==
  (IF ack # Null /\ ack # lastAck THEN <<[type |-> "ack", text |-> ack]>> ELSE <<>>)
    \o (IF error # Null /\ error # lastError
        THEN <<[type |-> "error", text |-> error]>> ELSE <<>>)

\* A seeded mistake: `finally` is missing, an error leaves the page loading.
SettleWithoutFinally(ack, error) ==
  /\ loading' = (ack = Null)
  /\ lastAck' = (IF ack = Null THEN lastAck ELSE ack)
  /\ lastError' = (IF error = Null THEN lastError ELSE error)

\* The rest of send(): an answer or an error, and `finally`.
Settle(ack, error) ==
  /\ loading' = FALSE
  /\ lastAck' = (IF ack = Null THEN lastAck ELSE ack)
  /\ lastError' = (IF error = Null THEN lastError ELSE error)

\* The promise of request r settles; a page that is gone does not notice.  The
\* fault lab's await returns in the same turn and ends the scenario.
Resolve(r, ack, error) ==
  /\ ~requests[r].done
  /\ requests' = [requests EXCEPT ![r].done = TRUE]
  /\ IF requests[r].visit = visit
     THEN /\ Settle(ack, error)
          /\ due' = IF page = "console" THEN due \o Effects(ack, error) ELSE due
          /\ running' = Null
     ELSE UNCHANGED <<hook, due, running>>
  /\ UNCHANGED <<where, connected, input, log, cmdHistory, historyIndex, params>>

Answered(r) ==
  /\ requests[r].answer # "none"
  /\ IF requests[r].answer = "ack" THEN Resolve(r, requests[r].cmd, Null)
     ELSE Resolve(r, Null, requests[r].answer)

\* fetch throws; the gateway may have handled the request, or handle it later.
NetworkFails(r) == Resolve(r, Null, "network")

----------------------------------------------------------------------------
(* The gateway: POST /api/command. *)

\* A command that is too long is refused; otherwise there is no connection, the
\* write fails, or the command is written and acknowledged.
Handle(r) ==
  /\ requests[r].answer = "none"
  /\ \E answer \in {"ack", "invalid", "undelivered"} :
       /\ (answer = "invalid") <=> (requests[r].cmd \in TooLong)
       /\ requests' = [requests EXCEPT ![r].answer = answer]
  /\ UNCHANGED <<where, connected, hook, console, lab>>

----------------------------------------------------------------------------
(* The console. *)

\* slice(-n).
Newest(n, s) == SubSeq(s, IF Len(s) > n THEN Len(s) - n + 1 ELSE 1, Len(s))

\* addLog, once per entry.
AddLog(entries) == log' = Newest(MaxLog, log \o entries)

RunEffects ==
  /\ due # <<>>
  /\ AddLog(due) /\ due' = <<>>
  /\ UNCHANGED <<where, connected, hook, input, cmdHistory, historyIndex, lab,
                 requests>>

\* filter().
Others(h, cmd) == Entries(h, {i \in DOMAIN h : h[i] # cmd})

\* A seeded mistake: a command given again is not added to the others.
RememberLosingRepeats(h, cmd) ==
  LET rest == Newest(MaxRecall, Others(h, cmd))
  IN IF Len(rest) < Len(h) THEN rest ELSE Append(Newest(MaxRecall - 1, h), cmd)

\* A command that was in the history moves to its end.
Remember(h, cmd) ==
  Append(IF MaxRecall = 1 THEN <<>> ELSE Newest(MaxRecall - 1, Others(h, cmd)), cmd)

\* The input field and the buttons are enabled.
Enabled == connected /\ ~loading

\* What submit and runQuick do: effects that are due run before the commit, and
\* their entries follow the new one.
Issue(cmd) ==
  /\ page = "console" /\ Enabled
  /\ AddLog(<<[type |-> "sent", text |-> cmd]>> \o due) /\ due' = <<>>
  /\ cmdHistory' = Remember(cmdHistory, cmd)
  /\ input' = Blank
  /\ Send(cmd)
  /\ UNCHANGED <<where, connected, lab>>

\* Enter, or the Send button.
Submit == /\ input # Blank
          /\ Issue(input)
          /\ historyIndex' = -1

\* A quick action or a preset leaves historyIndex alone.
RunQuick(cmd) == Issue(cmd) /\ UNCHANGED historyIndex

\* A change of the console's input that may move the index.
Edit(text, index) ==
  /\ page = "console" /\ Enabled
  /\ input' = text /\ historyIndex' = index
  /\ UNCHANGED <<where, connected, hook, log, cmdHistory, due, lab, requests>>

Type == \E text \in Typed \union {Blank} : Edit(text, historyIndex)

\* ArrowUp shows the newest command, and no other one from there.
ArrowUp ==
  LET index == IF historyIndex = -1 THEN Len(cmdHistory) - 1 ELSE historyIndex
  IN /\ cmdHistory # <<>> /\ historyIndex < Len(cmdHistory) - 1
     /\ Edit(cmdHistory[index + 1], index)

\* ArrowDown goes on to the older ones, and to an empty line after the oldest.
ArrowDown ==
  LET next == historyIndex - 1
  IN /\ historyIndex >= 0
     /\ Edit(IF next >= 0 THEN cmdHistory[next + 1] ELSE Blank, next)

----------------------------------------------------------------------------
(* The fault lab. *)

\* A seeded mistake: the watchdog's sliders are wired like those of cpu-overload.
ParamByKey(s, k) == IF s = "star-tracker-dropout" THEN "dur3" ELSE k

\* The parameter that slider k of a scenario shows and sets.
Param(s, k) == CASE s = "star-tracker-dropout" -> "dur3"
                 [] s = "watchdog" -> IF k = "ms" THEN "ms2" ELSE "dur2"
                 [] OTHER -> k

\* A slider is moved to one of its ends.
MoveSlider(s, k) ==
  /\ page = "lab"
  /\ Cardinality({p \in DOMAIN params : params[p] # InitialParams[p]}) < MaxMoved
  /\ \E end \in Ends :
       params' = [params EXCEPT ![Param(s, k)] = Slider(s)[k][end]]
  /\ UNCHANGED <<where, connected, hook, console, running, requests>>

\* A seeded mistake: the button only looks at the link.
RunScenarioAtAnyTime(s) ==
  /\ page = "lab" /\ connected
  /\ running' = s
  /\ Send(s)
  /\ UNCHANGED <<where, connected, console, params>>

RunScenario(s) ==
  /\ page = "lab" /\ Enabled /\ running = Null
  /\ running' = s
  /\ Send(s)
  /\ UNCHANGED <<where, connected, console, params>>

----------------------------------------------------------------------------

Console == \/ Submit \/ Type \/ ArrowUp \/ ArrowDown
           \/ \E cmd \in Quick : RunQuick(cmd)

FaultLab == \E s \in Scenarios : \/ RunScenario(s)
                               \/ \E k \in DOMAIN Slider(s) : MoveSlider(s, k)

Next == \/ Navigate \/ Console \/ FaultLab
        \/ LinkChanges \/ RunEffects
        \/ \E r \in DOMAIN requests : Handle(r) \/ Answered(r) \/ NetworkFails(r)

Spec == Init /\ [][Next]_vars

\* The gateway answers every request (RequestsAreAnswered of GatewayLink), the
\* browser delivers the answers and React runs the effects.
FairSpec == /\ Spec
            /\ WF_vars(RunEffects)
            /\ \A r \in 1..MaxRequests :
                 /\ WF_vars(r \in DOMAIN requests /\ Handle(r))
                 /\ WF_vars(r \in DOMAIN requests /\ Answered(r))

----------------------------------------------------------------------------

OfType(types, l) == Entries(l, {i \in DOMAIN l : l[i].type \in types})

\* The console logs one answer per command, in the order of the commands, and an
\* acknowledgement names the command it is for: no answer is lost when it equals
\* the one before, none is logged twice, and an effect that runs late does not
\* put it behind the answer to a later command.
AnswersMatchCommands ==
  LET sent == OfType({"sent"}, log)
      answers == OfType({"ack", "error"}, log \o due)
  IN Len(log) < MaxLog
       => /\ Len(sent) = Len(answers) + (IF page = "console" /\ loading THEN 1 ELSE 0)
          /\ \A k \in DOMAIN answers :
               answers[k].type = "ack" => answers[k].text = sent[k].text

Waiting == {r \in DOMAIN requests : requests[r].visit = visit /\ ~requests[r].done}

\* A page waits for one request at most, exactly while it shows that it does;
\* requests of pages that are gone make no difference.
LoadingMeansWaiting ==
  /\ Cardinality(Waiting) = (IF loading THEN 1 ELSE 0)
  /\ page = "lab" => (running # Null <=> loading)

\* The history the arrow keys walk has no command twice, and the index stays on
\* one of its entries although quick actions rewrite the history under it.
RecallInRange ==
  /\ historyIndex < Len(cmdHistory)
  /\ \A i, j \in DOMAIN cmdHistory : cmdHistory[i] = cmdHistory[j] => i = j

Unsettled == \/ loading \/ running # Null
             \/ log # <<>> /\ log[Len(log)].type = "sent"

\* A command is settled in the end, whatever fails on its way: the page accepts
\* input again, the scenario is over and the log does not end with a command.
CommandsSettle == Unsettled ~> ~Unsettled
=============================================================================
