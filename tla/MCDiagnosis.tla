---------------------------- MODULE MCDiagnosis ----------------------------
(* Every command of Commands.tla, each with every place and role; and every *)
(* timeout, of durations of 8 bits counting 10 to a millisecond.            *)
EXTENDS Diagnosis, Commands

AllCommands == DOMAIN CommandTable
AllProbes == UNION {{CommandTable[c].plan[i] : i \in 1..Len(CommandTable[c].plan)} :
                      c \in AllCommands}
AllGates == [p \in AllProbes |-> GateOf(p)]

\* The probes whose failure the documents let pass: what they collect is only
\* shown (queries.md, G2; PRD 5.2, archive.ready; probe.InstDisk).
Allowed == {"inst.disk", "freeze.tables", "archive.ready"}

\* Exit 0 is claimed only when everything the command collects was collected:
\* no probe of its list failed or was cut short (PRD 3, principle 3, and the
\* verdict rules of PRD 5; README, exit code 3).
NothingUncollected ==
  exit = 0 => \A p \in InPlan(cmd) \ Allowed : saw[p].status \notin {"skipped", "error"}
=============================================================================
