------------------------ MODULE MissionControlProofs ------------------------
(***************************************************************************)
(* Proofs about MissionControl, for every number of events and every       *)
(* length of the stream: a SAFE the operator sees has its reason, and no   *)
(* frame takes the page down.                                              *)
(***************************************************************************)
EXTENDS MissionControl, SequenceTheorems, TLAPS

Alarmed == alarms \intersect {"WATCHDOG", "DEADLINE"} # {}

\* sat_core's side of SafeIsExplained: the mode, the mode loaded for a frame and
\* the second steps that are due all have their alarm.
CoreExplained ==
  ~operated => /\ mode = "SAFE" => Alarmed
               /\ loaded = "SAFE" => Alarmed
               /\ pending \subseteq alarms

Explained(f) ==
  f.mode = "SAFE" /\ ~f.operated => f.faults \intersect {"WATCHDOG", "DEADLINE"} # {}

Shown(f) == f.attitude = "finite"

\* Every frame on its way is explained; one that has been parsed has numbers.
FramesInv ==
  /\ wire # Null => Explained(wire)
  /\ latestFrame # Null => Explained(latestFrame) /\ Shown(latestFrame)
  /\ latest # Null => Explained(latest) /\ Shown(latest)
  /\ \A i \in 1..Len(stream) : Explained(stream[i]) /\ Shown(stream[i])

FeedTypes ==
  /\ wire \in Frame \union {Null}
  /\ latestFrame \in Frame \union {Null}
  /\ latest \in Frame \union {Null}
  /\ stream \in Seq(Frame) /\ Len(stream) <= StreamCap

\* The feed is left alone by what sat_core does before its frame is sent.
LEMMA FeedUnchanged ==
  ASSUME FeedTypes, FramesInv, UNCHANGED <<wire, latestFrame, latest, stream>>
  PROVE FeedTypes' /\ FramesInv'
BY DEF FeedTypes, FramesInv

LEMMA CoreStep ==
  ASSUME Core!TypeOK, loaded \in Core!Mode \union {Null}, CoreExplained,
         \/ \E cmd \in Orders : TakeCommand(cmd)
         \/ CarryOut \/ Overrun \/ DeadlineEntersSafe \/ WatchdogRaises
         \/ WatchdogEntersSafe \/ CoreRestarts \/ SampleMode
  PROVE CoreExplained' /\ UNCHANGED <<wire, latestFrame, latest, stream>>
<1> USE NullAssumption DEF core, content, gatewayVars, browser
<1>m. "SAFE" \in Core!Mode BY DEF Core!Mode
<1>p. pending \subseteq {"WATCHDOG", "DEADLINE"} BY DEF Core!TypeOK
<1>1. ASSUME NEW cmd \in Orders, TakeCommand(cmd)
      PROVE  CoreExplained' /\ UNCHANGED <<wire, latestFrame, latest, stream>>
  <2>1. UNCHANGED <<mode, alarms, pending, operated, loaded, wire, latestFrame, latest, stream>>
    BY <1>1 DEF TakeCommand, Core!Accept
  <2> QED BY <2>1 DEF CoreExplained, Alarmed
<1>2. ASSUME NEW cmd \in Orders, Execute(cmd)
      PROVE  CoreExplained' /\ UNCHANGED <<wire, latestFrame, latest, stream>>
  <2>1. UNCHANGED <<loaded, wire, latestFrame, latest, stream>> BY <1>2 DEF Execute
  <2>2. CASE ExecSetMode(cmd)
    <3>1. alarms' = alarms /\ pending' = pending
      BY <2>2 DEF ExecSetMode, Core!OperatorSetsMode, Core!CarryOut
    <3>2. ~operated' => ~operated /\ mode' # "SAFE" BY <2>2, Zenon DEF ExecSetMode
    <3> QED BY <2>1, <3>1, <3>2 DEF CoreExplained, Alarmed
  <2>3. CASE ExecResetFaults(cmd)
    <3>1. operated' BY <2>3 DEF ExecResetFaults
    <3> QED BY <2>1, <3>1, Zenon DEF CoreExplained
  <2>4. CASE ExecPowerGlitch(cmd)
    <3>1. mode' = mode /\ pending' = pending /\ alarms \subseteq alarms'
      BY <2>4 DEF ExecPowerGlitch, Core!PowerGlitch, Core!CarryOut
    <3>2. operated' = operated BY <2>4 DEF ExecPowerGlitch
    <3> QED BY <2>1, <3>1, <3>2 DEF CoreExplained, Alarmed
  <2>5. CASE ExecSetTargetRate(cmd) \/ ExecWithoutEffect(cmd)
    <3>1. UNCHANGED <<mode, pending, alarms, operated>>
      BY <2>5 DEF ExecSetTargetRate, ExecWithoutEffect, Core!WithoutEffect, Core!CarryOut
    <3> QED BY <2>1, <3>1 DEF CoreExplained, Alarmed
  <2> QED BY <1>2, <2>2, <2>3, <2>4, <2>5 DEF Execute
<1>3. ASSUME NEW alarm \in {"WATCHDOG", "DEADLINE"},
             alarms' = alarms \union {alarm}, pending' = pending \union {alarm},
             UNCHANGED <<mode, operated, loaded, wire, latestFrame, latest, stream>>
      PROVE  CoreExplained' /\ UNCHANGED <<wire, latestFrame, latest, stream>>
  BY <1>3 DEF CoreExplained, Alarmed
<1>4. ASSUME NEW alarm \in {"WATCHDOG", "DEADLINE"}, Core!EnterSafe(alarm),
             UNCHANGED <<content, loaded, wire, gatewayVars, browser, events>>
      PROVE  CoreExplained' /\ UNCHANGED <<wire, latestFrame, latest, stream>>
  <2>1. alarm \in pending /\ pending' \subseteq pending /\ alarms' = alarms
    BY <1>4 DEF Core!EnterSafe
  <2>2. UNCHANGED <<operated, loaded, wire, latestFrame, latest, stream>> BY <1>4
  <2>3. ~operated => Alarmed BY <1>4, <2>1 DEF CoreExplained, Alarmed
  <2> QED BY <2>1, <2>2, <2>3 DEF CoreExplained, Alarmed
<1>5. CASE Overrun
  <2>1. /\ alarms' = alarms \union {"DEADLINE"} /\ pending' = pending \union {"DEADLINE"}
        /\ UNCHANGED <<mode, operated, loaded, wire, latestFrame, latest, stream>>
    BY <1>5 DEF Overrun, Core!RaiseDeadline
  <2> QED BY <1>3, <2>1
<1>6. CASE WatchdogRaises
  <2>1. /\ alarms' = alarms \union {"WATCHDOG"} /\ pending' = pending \union {"WATCHDOG"}
        /\ UNCHANGED <<mode, operated, loaded, wire, latestFrame, latest, stream>>
    BY <1>6 DEF WatchdogRaises, Core!RaiseWatchdog
  <2> QED BY <1>3, <2>1
<1>7. CASE DeadlineEntersSafe BY <1>4, <1>7 DEF DeadlineEntersSafe
<1>8. CASE WatchdogEntersSafe BY <1>4, <1>8 DEF WatchdogEntersSafe
<1>9. CASE CoreRestarts
  <2>1. /\ mode' = "NOMINAL" /\ loaded' = Null /\ pending' = {}
        /\ UNCHANGED <<wire, latestFrame, latest, stream>>
    BY <1>9 DEF CoreRestarts
  <2>2. loaded' # "SAFE" /\ mode' # "SAFE" BY <2>1, <1>m
  <2> QED BY <2>1, <2>2 DEF CoreExplained
<1>10. CASE SampleMode
  <2>1. /\ loaded' = mode
        /\ UNCHANGED <<mode, alarms, pending, operated, wire, latestFrame, latest, stream>>
    BY <1>10 DEF SampleMode
  <2> QED BY <2>1 DEF CoreExplained, Alarmed
<1> QED BY <1>1, <1>2, <1>5, <1>6, <1>7, <1>8, <1>9, <1>10 DEF CarryOut

LEMMA BuiltFrame ==
  ASSUME TypeOK, loaded # Null
  PROVE Built \in Frame /\ (CoreExplained => Explained(Built))
<1>1. /\ loaded \in Core!Mode /\ alarms \in SUBSET Core!Latched
      /\ text \in {"clean", "control"} /\ attitude \in {"finite", "nan"}
      /\ operated \in BOOLEAN /\ stamp \in 0..(Stamps - 1)
  BY Zenon DEF TypeOK, Core!TypeOK
<1>2. Built \in Frame BY <1>1, Zenon DEF Built, Frame
<1>3. /\ Built.mode = loaded /\ Built.faults = alarms /\ (Built.operated <=> operated)
  BY DEF Built
<1>4. CoreExplained => Explained(Built) BY <1>3 DEF CoreExplained, Explained, Alarmed
<1> QED BY <1>2, <1>4

\* The feed: from the datagram to the store.
LEMMA FeedStep ==
  ASSUME TypeOK, CoreExplained, FeedTypes, FramesInv,
         SendFrame \/ Gateway \/ Browser
  PROVE CoreExplained' /\ FeedTypes' /\ FramesInv'
<1> USE NullAssumption, StreamAssumption DEF core, content, gatewayVars, browser
<1>l. Len(stream) \in Nat BY LenProperties DEF FeedTypes
<1>e. \A i \in 1..Len(stream) : stream[i] \in Frame BY ElementOfSeq DEF FeedTypes
<1>0. FeedTypes' /\ FramesInv'
  <2>1. CASE SendFrame
    <3>1. /\ wire' = Built /\ loaded # Null
          /\ UNCHANGED <<latestFrame, latest, stream>>
      BY <2>1 DEF SendFrame
    <3>2. Built \in Frame /\ Explained(Built) BY <3>1, BuiltFrame
    <3> QED BY <3>1, <3>2 DEF FeedTypes, FramesInv
  <2>2. CASE DatagramLost
    BY <2>2 DEF DatagramLost, FeedTypes, FramesInv
  <2>3. CASE Ingest
    <3>1. wire \in Frame /\ Explained(wire) /\ wire' = Null /\ latest' = latest
          /\ Len(stream) < StreamCap
      BY <2>3 DEF Ingest, FeedTypes, FramesInv
    <3>2. CASE Parses(wire)
      <4>1. Shown(wire) BY <3>2 DEF Parses, Shown
      <4>2. latestFrame' = wire /\ stream' \in {stream, Append(stream, wire)}
        BY <2>3, <3>2 DEF Ingest
      <4>3. CASE stream' = stream
        BY <3>1, <4>1, <4>2, <4>3 DEF FeedTypes, FramesInv
      <4>4. CASE stream' = Append(stream, wire)
        <5>1. /\ stream' \in Seq(Frame) /\ Len(stream') = Len(stream) + 1
              /\ stream'[Len(stream) + 1] = wire
              /\ \A i \in 1..Len(stream) : stream'[i] = stream[i]
          BY <3>1, <4>4, AppendProperties DEF FeedTypes
        <5>2. \A i \in 1..Len(stream') : Explained(stream'[i]) /\ Shown(stream'[i])
          BY <1>l, <3>1, <4>1, <5>1 DEF FramesInv
        <5>3. Len(stream') <= StreamCap BY <1>l, <3>1, <5>1
        <5> QED BY <3>1, <4>1, <4>2, <5>1, <5>2, <5>3 DEF FeedTypes, FramesInv
      <4> QED BY <4>2, <4>3, <4>4
    <3>3. CASE ~Parses(wire)
      <4>1. latestFrame' = latestFrame /\ stream' = stream BY <2>3, <3>3 DEF Ingest
      <4> QED BY <3>1, <4>1 DEF FeedTypes, FramesInv
    <3> QED BY <3>2, <3>3
  <2>4. CASE GatewayStops
    <3>1. latestFrame' = Null /\ stream' = <<>> /\ UNCHANGED <<wire, latest>>
      BY <2>4 DEF GatewayStops
    <3> QED BY <3>1 DEF FeedTypes, FramesInv
  <2>5. CASE GatewayStarts
    <3>1. UNCHANGED <<wire, latestFrame, latest, stream>> BY <2>5 DEF GatewayStarts
    <3> QED BY <3>1, FeedUnchanged
  <2>6. CASE LinkOpens
    <3>1. UNCHANGED <<wire, latestFrame, latest>> BY <2>6 DEF LinkOpens
    <3>2. CASE HasTelemetry
      <4>1. latestFrame # Null /\ latestFrame \in Frame
        BY <3>2 DEF HasTelemetry, Status, FeedTypes
      <4>2. stream' = <<latestFrame>> BY <2>6, <3>2 DEF LinkOpens
      <4>3. /\ stream' \in Seq(Frame) /\ Len(stream') = 1
            /\ \A i \in 1..1 : stream'[i] = latestFrame
        BY <4>1, <4>2
      <4>4. Explained(latestFrame) /\ Shown(latestFrame) BY <4>1 DEF FramesInv
      <4>5. \A i \in 1..Len(stream') : Explained(stream'[i]) /\ Shown(stream'[i])
        BY <4>3, <4>4
      <4> QED BY <3>1, <4>3, <4>5 DEF FeedTypes, FramesInv
    <3>3. CASE ~HasTelemetry
      <4>1. stream' = <<>> BY <2>6, <3>3 DEF LinkOpens
      <4> QED BY <3>1, <4>1 DEF FeedTypes, FramesInv
    <3> QED BY <3>2, <3>3
  <2>7. CASE LinkBreaks
    <3>1. stream' = <<>> /\ UNCHANGED <<wire, latestFrame, latest>>
      BY <2>7 DEF LinkBreaks
    <3> QED BY <3>1 DEF FeedTypes, FramesInv
  <2>8. CASE SetLatest
    <3>1. /\ stream # <<>> /\ latest' = Head(stream) /\ stream' = Tail(stream)
          /\ UNCHANGED <<wire, latestFrame>>
      BY <2>8 DEF SetLatest
    <3>2. /\ stream' \in Seq(Frame) /\ Len(stream') = Len(stream) - 1
          /\ \A i \in 1..Len(stream') : stream'[i] = stream[i + 1]
      BY <3>1, HeadTailProperties DEF FeedTypes
    <3>3. latest' = stream[1] /\ Len(stream) > 0
      BY <1>l, <3>1, EmptySeq DEF FeedTypes
    <3>4. \A i \in 1..Len(stream') : Explained(stream'[i]) /\ Shown(stream'[i])
      BY <1>l, <3>2 DEF FramesInv
    <3>5. Explained(latest') /\ Shown(latest') /\ latest' \in Frame
      BY <1>l, <1>e, <3>3 DEF FramesInv
    <3> QED BY <1>l, <3>1, <3>2, <3>4, <3>5 DEF FeedTypes, FramesInv
  <2> QED BY <2>1, <2>2, <2>3, <2>4, <2>5, <2>6, <2>7, <2>8 DEF Gateway, Browser
<1>1. UNCHANGED <<mode, alarms, pending, operated>> /\ loaded' \in {loaded, Null}
  BY DEF Gateway, Browser, SendFrame, DatagramLost, Ingest, GatewayStops, GatewayStarts,
         LinkOpens, LinkBreaks, SetLatest
<1>2. CoreExplained'
  <2>1. loaded' = "SAFE" => loaded = "SAFE"
    <3>1. "SAFE" \in Core!Mode BY DEF Core!Mode
    <3> QED BY <1>1, <3>1
  <2> QED BY <1>1, <2>1 DEF CoreExplained, Alarmed
<1> QED BY <1>0, <1>2

----------------------------------------------------------------------------
(* Types. *)

Flags == operated \in BOOLEAN /\ connected \in BOOLEAN
Values == /\ Core!TypeOK
          /\ text \in {"clean", "control"} /\ attitude \in {"finite", "nan"}
          /\ stamp \in 0..(Stamps - 1)
          /\ loaded \in Core!Mode \union {Null} /\ gateway \in {"up", "down"}
          /\ events \in 0..MaxEvents

LEMMA TypeParts == TypeOK <=> Flags /\ Values /\ FeedTypes
BY Zenon DEF TypeOK, Flags, Values, FeedTypes

LEMMA TypePartsNext == (Flags /\ Values /\ FeedTypes)' => TypeOK'
BY Zenon DEF TypeOK, Flags, Values, FeedTypes

LEMMA FlagsStep == Flags /\ [Next]_vars => Flags'
<1> SUFFICES ASSUME Flags, [Next]_vars PROVE Flags'
  OBVIOUS
<1> USE DEF Flags, core, content, gatewayVars, browser
<1>1. ASSUME NEW cmd \in Orders, TakeCommand(cmd) PROVE Flags'
  BY <1>1, Zenon DEF TakeCommand
<1>2. ASSUME NEW cmd \in Orders, Execute(cmd) PROVE Flags'
  <2>1. connected' = connected BY <1>2 DEF Execute
  <2>2. operated' \in {operated, TRUE, operated \/ mode' = "SAFE"}
    BY <1>2, Zenon DEF Execute, ExecSetMode, ExecResetFaults, ExecPowerGlitch,
                       ExecSetTargetRate, ExecWithoutEffect
  <2>3. operated \in BOOLEAN /\ (operated \/ mode' = "SAFE") \in BOOLEAN OBVIOUS
  <2>4. operated' \in BOOLEAN BY <2>2, <2>3, Zenon
  <2> QED BY <2>1, <2>4, Zenon
<1>3. CASE Overrun BY <1>3, Zenon DEF Overrun
<1>4. CASE DeadlineEntersSafe BY <1>4, Zenon DEF DeadlineEntersSafe
<1>5. CASE WatchdogRaises BY <1>5, Zenon DEF WatchdogRaises
<1>6. CASE WatchdogEntersSafe BY <1>6, Zenon DEF WatchdogEntersSafe
<1>7. CASE CoreRestarts BY <1>7, Zenon DEF CoreRestarts
<1>8. CASE SampleMode BY <1>8, Zenon DEF SampleMode
<1>9. CASE SendFrame BY <1>9, Zenon DEF SendFrame
<1>10. CASE DatagramLost BY <1>10, Zenon DEF DatagramLost
<1>11. CASE Ingest BY <1>11, Zenon DEF Ingest
<1>12. CASE GatewayStops BY <1>12, Zenon DEF GatewayStops
<1>13. CASE GatewayStarts BY <1>13, Zenon DEF GatewayStarts
<1>14. CASE LinkOpens BY <1>14, Zenon DEF LinkOpens
<1>15. CASE LinkBreaks BY <1>15, Zenon DEF LinkBreaks
<1>16. CASE SetLatest BY <1>16, Zenon DEF SetLatest
<1>17. CASE UNCHANGED vars BY <1>17, Zenon DEF vars
<1> QED BY <1>1, <1>2, <1>3, <1>4, <1>5, <1>6, <1>7, <1>8, <1>9, <1>10, <1>11, <1>12,
           <1>13, <1>14, <1>15, <1>16, <1>17 DEF Next, SatCore, CarryOut, Gateway, Browser

\* The protection logic keeps its types: no order but one that was accepted.
LEMMA CoreTypes ==
  ASSUME Core!TypeOK, [Core!Next]_core
  PROVE  Core!TypeOK'
<1> USE DEF Core!TypeOK, core
<1>m. "SAFE" \in Core!Mode /\ "NOMINAL" \in Core!Mode BY DEF Core!Mode
<1>a. \A b \in {"WATCHDOG", "DEADLINE", "POWER_GLITCH"} : b \in Core!Latched
  BY DEF Core!Latched
<1>1. ASSUME NEW cmd \in Orders,
             \/ Core!Accept(cmd) \/ Core!OperatorSetsMode(cmd) \/ Core!OperatorResets(cmd)
             \/ Core!PowerGlitch(cmd) \/ Core!WithoutEffect(cmd)
      PROVE  Core!TypeOK'
  BY <1>1, <1>m, <1>a DEF Core!Accept, Core!OperatorSetsMode, Core!OperatorResets,
     Core!PowerGlitch, Core!WithoutEffect, Core!CarryOut, Core!ParseMode
<1>2. CASE Core!RaiseWatchdog BY <1>2, <1>a DEF Core!RaiseWatchdog
<1>3. CASE Core!RaiseDeadline BY <1>3, <1>a DEF Core!RaiseDeadline
<1>4. ASSUME NEW alarm \in {"WATCHDOG", "DEADLINE"}, Core!EnterSafe(alarm)
      PROVE  Core!TypeOK'
  BY <1>4, <1>m DEF Core!EnterSafe
<1> QED BY <1>1, <1>2, <1>3, <1>4 DEF Core!Next

\* Every step of the whole system is one of the protection logic, or leaves it
\* alone, or starts it anew.
LEMMA CoreImplemented ==
  ASSUME [Next]_vars
  PROVE  [Core!Next]_core \/ Core!Init'
<1> USE DEF content, gatewayVars, browser
<1>1. ASSUME NEW cmd \in Orders, TakeCommand(cmd) PROVE [Core!Next]_core
  BY <1>1 DEF TakeCommand, Core!Next
<1>2. ASSUME NEW cmd \in Orders, Execute(cmd) PROVE [Core!Next]_core
  BY <1>2 DEF Execute, ExecSetMode, ExecResetFaults, ExecPowerGlitch,
     ExecSetTargetRate, ExecWithoutEffect, Core!Next
<1>3. CASE Overrun BY <1>3 DEF Overrun, Core!Next
<1>4. CASE DeadlineEntersSafe BY <1>4 DEF DeadlineEntersSafe, Core!Next
<1>5. CASE WatchdogRaises BY <1>5 DEF WatchdogRaises, Core!Next
<1>6. CASE WatchdogEntersSafe BY <1>6 DEF WatchdogEntersSafe, Core!Next
<1>7. CASE CoreRestarts BY <1>7 DEF CoreRestarts, Core!Init
<1>8. CASE SampleMode \/ SendFrame \/ Gateway \/ Browser \/ UNCHANGED vars
  BY <1>8 DEF SampleMode, SendFrame, Gateway, Browser, DatagramLost, Ingest, GatewayStops,
     GatewayStarts, LinkOpens, LinkBreaks, SetLatest, vars
<1> QED BY <1>1, <1>2, <1>3, <1>4, <1>5, <1>6, <1>7, <1>8 DEF Next, SatCore, CarryOut

LEMMA CoreStarts == Core!Init => Core!TypeOK
BY DEF Core!Init, Core!TypeOK, Core!Mode

LEMMA CoreRestarted == Core!Init' => Core!TypeOK'
BY DEF Core!Init, Core!TypeOK, Core!Mode

LEMMA ValuesStep == Values /\ [Next]_vars => Values'
<1> SUFFICES ASSUME Values, [Next]_vars PROVE Values'
  OBVIOUS
<1>t. Core!TypeOK' BY CoreTypes, CoreImplemented, CoreRestarted DEF Values
<1>s. (stamp + 1) % Stamps \in 0..(Stamps - 1)
  BY StampAssumption DEF Values
<1>m. mode \in Core!Mode BY DEF Values, Core!TypeOK
<1> DEFINE Rest == /\ text \in {"clean", "control"} /\ attitude \in {"finite", "nan"}
                   /\ stamp \in 0..(Stamps - 1)
                   /\ loaded \in Core!Mode \union {Null} /\ gateway \in {"up", "down"}
                   /\ events \in 0..MaxEvents
<1>0. Rest BY DEF Values
<1>r. Rest'
  <2> USE EventAssumption DEF core, content, gatewayVars, browser, Happens
  <2>1. ASSUME NEW cmd \in Orders, TakeCommand(cmd) PROVE Rest'
    BY <1>0, <2>1 DEF TakeCommand
  <2>2. ASSUME NEW cmd \in Orders, Execute(cmd) PROVE Rest'
    <3>1. attitude' \in {attitude, "nan"}
      BY <2>2 DEF Execute, ExecSetMode, ExecResetFaults, ExecPowerGlitch,
         ExecSetTargetRate, ExecWithoutEffect
    <3> QED BY <1>0, <2>2, <3>1 DEF Execute
  <2>3. CASE Overrun BY <1>0, <2>3 DEF Overrun
  <2>4. CASE DeadlineEntersSafe BY <1>0, <2>4 DEF DeadlineEntersSafe
  <2>5. CASE WatchdogRaises BY <1>0, <2>5 DEF WatchdogRaises
  <2>6. CASE WatchdogEntersSafe BY <1>0, <2>6 DEF WatchdogEntersSafe
  <2>7. CASE CoreRestarts BY <1>0, <2>7 DEF CoreRestarts
  <2>8. CASE SampleMode BY <1>0, <1>m, <2>8 DEF SampleMode
  <2>9. CASE SendFrame BY <1>0, <1>s, <2>9 DEF SendFrame
  <2>10. CASE DatagramLost BY <1>0, <2>10 DEF DatagramLost
  <2>11. CASE Ingest BY <1>0, <2>11 DEF Ingest
  <2>12. CASE GatewayStops BY <1>0, <2>12 DEF GatewayStops
  <2>13. CASE GatewayStarts BY <1>0, <2>13 DEF GatewayStarts
  <2>14. CASE LinkOpens BY <1>0, <2>14 DEF LinkOpens
  <2>15. CASE LinkBreaks BY <1>0, <2>15 DEF LinkBreaks
  <2>16. CASE SetLatest BY <1>0, <2>16 DEF SetLatest
  <2>17. CASE UNCHANGED vars BY <1>0, <2>17 DEF vars
  <2> QED BY <2>1, <2>2, <2>3, <2>4, <2>5, <2>6, <2>7, <2>8, <2>9, <2>10, <2>11, <2>12,
             <2>13, <2>14, <2>15, <2>16, <2>17 DEF Next, SatCore, CarryOut, Gateway, Browser
<1> QED BY <1>t, <1>r DEF Values

----------------------------------------------------------------------------
(* The invariant. *)

IInv == TypeOK /\ CoreExplained /\ FramesInv

LEMMA Invariance == Spec => []IInv
<1>1. Init => IInv
  <2> SUFFICES ASSUME Init PROVE Flags /\ Values /\ FeedTypes /\ CoreExplained /\ FramesInv
    BY TypeParts DEF IInv
  <2>1. Flags BY Zenon DEF Init, Core!Init, Flags
  <2>2. Values BY EventAssumption, StampAssumption, CoreStarts DEF Init, Values
  <2>3. FeedTypes BY StreamAssumption DEF Init, FeedTypes
  <2>4. mode # "SAFE" /\ pending = {} /\ loaded # "SAFE"
    <3>1. "SAFE" \in Core!Mode /\ mode = "NOMINAL" /\ loaded = Null
      BY DEF Init, Core!Init, Core!Mode
    <3>2. pending = {} BY DEF Init, Core!Init
    <3> QED BY <3>1, <3>2, NullAssumption
  <2>5. CoreExplained BY <2>4 DEF CoreExplained
  <2>6. FramesInv BY DEF Init, FramesInv
  <2> QED BY <2>1, <2>2, <2>3, <2>5, <2>6
<1>2. IInv /\ [Next]_vars => IInv'
  <2> SUFFICES ASSUME IInv, [Next]_vars
               PROVE Flags' /\ Values' /\ FeedTypes' /\ CoreExplained' /\ FramesInv'
    BY TypePartsNext, Zenon DEF IInv
  <2>1. Flags /\ Values /\ FeedTypes /\ CoreExplained /\ FramesInv /\ TypeOK
    BY TypeParts DEF IInv
  <2>2. Flags' /\ Values' BY <2>1, FlagsStep, ValuesStep
  <2>3. CASE \/ \E cmd \in Orders : TakeCommand(cmd)
             \/ CarryOut \/ Overrun \/ DeadlineEntersSafe \/ WatchdogRaises
             \/ WatchdogEntersSafe \/ CoreRestarts \/ SampleMode
    <3>1. Core!TypeOK /\ loaded \in Core!Mode \union {Null} BY <2>1, Zenon DEF TypeOK
    <3>2. CoreExplained' /\ UNCHANGED <<wire, latestFrame, latest, stream>>
      BY <2>1, <2>3, <3>1, CoreStep
    <3> QED BY <2>1, <2>2, <3>2, FeedUnchanged
  <2>4. CASE SendFrame \/ Gateway \/ Browser
    BY <2>1, <2>2, <2>4, FeedStep
  <2>5. CASE UNCHANGED vars
    <3>1. UNCHANGED <<wire, latestFrame, latest, stream>>
          /\ UNCHANGED <<mode, alarms, pending, operated, loaded>>
      BY <2>5 DEF vars, core, content, gatewayVars, browser
    <3>2. CoreExplained' BY <2>1, <3>1 DEF CoreExplained, Alarmed
    <3> QED BY <2>1, <2>2, <3>1, <3>2, FeedUnchanged
  <2> QED BY <2>3, <2>4, <2>5 DEF Next, SatCore
<1> QED BY <1>1, <1>2, PTL DEF Spec

\* MissionControl's variables keep their types.
THEOREM MissionTypeCorrect == Spec => []TypeOK
<1>1. IInv => TypeOK BY DEF IInv
<1> QED BY <1>1, Invariance, PTL

\* A SAFE badge that no operator has asked for is shown together with the
\* watchdog's or the deadline's fault.
THEOREM SafeHasItsReason == Spec => []SafeIsExplained
<1>1. IInv => SafeIsExplained
  BY DEF IInv, FramesInv, Explained, SafeIsExplained, HasFrame, ModeBadge, FaultsPanel
<1> QED BY <1>1, Invariance, PTL

\* No frame takes the page down, whatever happens to the attitude.
THEOREM PageSurvives == Spec => []PageNeverThrows
<1>1. IInv => PageNeverThrows
  BY DEF IInv, FramesInv, Shown, PageNeverThrows, HasFrame, AttitudePanel
<1> QED BY <1>1, Invariance, PTL
=============================================================================
