----------------------------- MODULE MCSatCore -----------------------------
(* Instances of SatCore for TLC: which commands the clients may send. *)
EXTENDS SatCore

\* What the protection logic tells apart: every way to set the mode, the reset,
\* a command that SAFE admits and one that it refuses, alarms of commands, and
\* numbers that std::stod rejects.
Protective == {SetMode("nominal"), SetMode("Nominal"), SetMode("none"),
               Plain("RESET_FAULTS"), Plain("PING"), Inject("CPU_LOAD", 1),
               Plain("POWER_GLITCH"), Garbled("POWER_GLITCH")}

\* Commands that start, restart and clear every injection, for the shortest
\* duration that lasts past the cycle it starts in or for ever.
Injections == {Plain("RESET_FAULTS"),
               Inject("CPU_LOAD", 2), Inject("CPU_LOAD", Endless),
               Inject("SENSOR_DROPOUT", 2), Inject("SENSOR_DROPOUT", Endless),
               Inject("GYRO_SPIKE", 2), Inject("GYRO_SPIKE", Endless)}

\* Commands that need no argument, for the finding about the budget.
Simple == {Plain("PING"), Plain("RESET_FAULTS")}
=============================================================================
