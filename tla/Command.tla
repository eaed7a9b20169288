------------------------------ MODULE Command ------------------------------
(***************************************************************************)
(* The vocabulary of flight commands: the modes of mode.hpp and the shape  *)
(* in which the control loop of main.cpp sees a line parsed by             *)
(* command.cpp.  The tokens of a line are abstracted to what the           *)
(* dispatcher tells apart: the verb (with the kind of injection when the   *)
(* verb is INJECT and enough arguments follow), the word given to          *)
(* SET_MODE, the number of 100 ms cycles a duration is worth, and whether  *)
(* std::stod accepts every number the branch passes to it.                 *)
(***************************************************************************)
EXTENDS Integers

Mode == {"NOMINAL", "SAFE"}

\* Words a ground operator writes after SET_MODE; "none" is a bare SET_MODE.
ModeWord == {"NOMINAL", "nominal", "SAFE", "Nominal"}

\* Two exact spellings mean NOMINAL, every other word means SAFE.
ParseMode(word) == IF word \in {"NOMINAL", "nominal"} THEN "NOMINAL" ELSE "SAFE"

\* Verbs the SAFE gate lets through.
AcceptedInSafe == {"PING", "RESET_FAULTS", "SET_MODE", "STATS"}

FaultVerb == {"CPU_LOAD", "SENSOR_DROPOUT", "GYRO_SPIKE", "POWER_GLITCH"}

\* "OTHER" is an unknown verb, an unknown injection or one short of arguments:
\* the gate refuses it in SAFE and the dispatcher has no branch for it.
Verb == AcceptedInSafe \union FaultVerb \union {"SET_TARGET_RATE", "OTHER"}

\* A duration that no number of cycles uses up: std::stod accepts "inf", and
\* taking 0.1 s from a double beyond 2^53 or so does not change it.
Endless == -1

\* Cycles that find a duration positive; one that is not (nan included) has 0.
Duration == Nat \union {Endless}

\* Only branches that convert a number can be given one that is not numeric.
Commands == {cmd \in [verb    : Verb,
                     word    : ModeWord \union {"none"},
                     cycles  : Duration,
                     numeric : BOOLEAN] :
               ~cmd.numeric => cmd.verb \in FaultVerb \union {"SET_TARGET_RATE"}}

Plain(verb) ==
  [verb |-> verb, word |-> "none", cycles |-> 0, numeric |-> TRUE]
SetMode(word) == [Plain("SET_MODE") EXCEPT !.word = word]
Inject(kind, cycles) == [Plain(kind) EXCEPT !.cycles = cycles]
Garbled(verb) == [Plain(verb) EXCEPT !.numeric = FALSE]

\* Value of last_command before the first command.
NoCommand == Plain("OTHER")
=============================================================================
