------------------------------ MODULE MCReminders ------------------------------
\* A reminder for now (also what unreadable arguments mean), one for later, one
\* for beyond the day the scan looks ahead, and calls that fail in each way.
EXTENDS Reminders

Call(tool, good, minutes) == [call |-> 0, tool |-> tool, good |-> good, minutes |-> minutes]

MCRequests ==
  {Call("set_reminder", FALSE, 1), Call("set_reminder", TRUE, 1),
   Call("set_reminder", TRUE, 2), Call("calculate", FALSE, 0), Call(Malformed, FALSE, 0)}

MCRegistered == {"set_reminder", "calculate"}
=============================================================================
