----------------------------- MODULE SafeMode ------------------------------
(***************************************************************************)
(* What the protection logic of sat_core promises, without the loop that   *)
(* implements it.  A gate admits one command at a time: in SAFE only those *)
(* of AcceptedInSafe.  Past the gate, only SET_MODE sets a mode and only   *)
(* RESET_FAULTS clears latched alarms, all of them at once; whatever       *)
(* happens to the mode in between, an admitted command is carried out.     *)
(* Watchdog and deadline raise their alarm first and force SAFE in a       *)
(* second step; before that step the control loop admits no command, but   *)
(* the watchdog is a thread of its own.  Nothing else changes the mode.    *)
(***************************************************************************)
EXTENDS Command, Sequences

CONSTANT Orders     \* the commands that may reach the gate

VARIABLES mode,     \* the shared operating mode
          alarms,   \* the latched fault bits that are set
          pending,  \* the alarms that were raised and have not yet set SAFE
          order     \* the command that has passed the gate, if there is one

vars == <<mode, alarms, pending, order>>

Latched == {"WATCHDOG", "DEADLINE", "POWER_GLITCH"}

TypeOK == /\ mode \in Mode
          /\ alarms \subseteq Latched
          /\ pending \subseteq {"WATCHDOG", "DEADLINE"}
          /\ order \in {<<>>} \union {<<cmd>> : cmd \in Orders}

Init == /\ mode = "NOMINAL"
        /\ alarms = {}
        /\ pending = {}
        /\ order = <<>>

----------------------------------------------------------------------------
(* Commands. *)

Refused(cmd) == mode = "SAFE" /\ cmd.verb \notin AcceptedInSafe

\* The control loop is between two commands or between two cycles.
Ready == order = <<>> /\ "DEADLINE" \notin pending

Accept(cmd) == /\ Ready
               /\ ~Refused(cmd)
               /\ order' = <<cmd>>
               /\ UNCHANGED <<mode, alarms, pending>>

\* The admitted command is carried out.
CarryOut(cmd) == order = <<cmd>> /\ order' = <<>> /\ UNCHANGED pending

OperatorSetsMode(cmd) ==
  /\ CarryOut(cmd)
  /\ cmd.verb = "SET_MODE"
  /\ mode' = IF cmd.word = "none" THEN mode ELSE ParseMode(cmd.word)
  /\ UNCHANGED alarms

OperatorResets(cmd) ==
  /\ CarryOut(cmd)
  /\ cmd.verb = "RESET_FAULTS"
  /\ alarms' = {}
  /\ UNCHANGED mode

PowerGlitch(cmd) ==
  /\ CarryOut(cmd)
  /\ cmd.verb = "POWER_GLITCH" /\ cmd.numeric
  /\ alarms' = alarms \union {"POWER_GLITCH"}
  /\ UNCHANGED mode

\* Every other command, and a glitch with a number that std::stod rejects.
WithoutEffect(cmd) ==
  /\ CarryOut(cmd)
  /\ \/ cmd.verb \notin {"SET_MODE", "RESET_FAULTS", "POWER_GLITCH"}
     \/ cmd.verb = "POWER_GLITCH" /\ ~cmd.numeric
  /\ UNCHANGED <<mode, alarms>>

----------------------------------------------------------------------------
(* Alarms. *)

\* A seeded mistake: the watchdog sets the mode before it raises its alarm.
ForceSafeFirst == /\ "WATCHDOG" \notin pending
                  /\ mode' = "SAFE"
                  /\ pending' = pending \union {"WATCHDOG"}
                  /\ UNCHANGED <<alarms, order>>

RaiseWatchdog == /\ "WATCHDOG" \notin pending
                 /\ alarms' = alarms \union {"WATCHDOG"}
                 /\ pending' = pending \union {"WATCHDOG"}
                 /\ UNCHANGED <<mode, order>>

RaiseDeadline == /\ Ready
                 /\ alarms' = alarms \union {"DEADLINE"}
                 /\ pending' = pending \union {"DEADLINE"}
                 /\ UNCHANGED <<mode, order>>

EnterSafe(alarm) == /\ alarm \in pending
                    /\ mode' = "SAFE"
                    /\ pending' = pending \ {alarm}
                    /\ UNCHANGED <<alarms, order>>

Next == \/ \E cmd \in Orders : \/ Accept(cmd)
                               \/ OperatorSetsMode(cmd)
                               \/ OperatorResets(cmd)
                               \/ PowerGlitch(cmd)
                               \/ WithoutEffect(cmd)
        \/ RaiseWatchdog
        \/ RaiseDeadline
        \/ \E alarm \in {"WATCHDOG", "DEADLINE"} : EnterSafe(alarm)

Spec == Init /\ [][Next]_vars
=============================================================================
