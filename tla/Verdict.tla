------------------------------ MODULE Verdict ------------------------------
(***************************************************************************)
(* The vocabulary every command shares: the collection status of a probe   *)
(* (internal/facts), how a failed query becomes a status (internal/probe), *)
(* how findings and blind spots become a verdict (internal/rule), and how  *)
(* the verdict becomes the process's exit code (internal/report).          *)
(*                                                                         *)
(* Abstracted: a finding is its level, so a list of findings is a set of   *)
(* levels; reasons, symptoms, evidence and next steps carry no control.    *)
(***************************************************************************)
EXTENDS Naturals

\* Collection statuses of a probe.
Statuses == {"ok", "skipped", "error", "not_applicable"}

\* facts.Context.Role, the recovery role Identify read.
Roles == {"primary", "standby"}

\* Levels a rule gives a finding. LevelOK is declared in the code but no rule
\* builds a finding with it.
Levels == {"WARN", "FAIL"}

Verdicts == {"OK", "WARN", "FAIL", "UNKNOWN"}

\* What a query can come back with instead of rows: the SQLSTATEs classify
\* tells apart, any other server error, or no server error at all (the link
\* broke, or a value did not scan).
QueryErrors == {"57014", "55P03", "42501", "other_code", "no_code"}

\* Mutant: what is not understood is passed on as it came.
ClassifyRaw(err) ==
  IF err \in {"57014", "55P03", "42501"} THEN "skipped" ELSE err

\* The status a failed query leaves its probe with.
Classify(err) ==
  IF err \in {"57014", "55P03", "42501"} THEN "skipped" ELSE "error"

\* collected: may the rows be judged, and is this probe a blind spot?
\* not_applicable is neither.
Judgeable(st) == st = "ok"
BlindSpot(st) == st \notin {"ok", "not_applicable"}

\* Mutant: the blind spots are dropped, so what was not seen reads as fine.
VerdictForgetsBlind(levels, unknown) ==
  CASE "FAIL" \in levels -> "FAIL"
    [] "FAIL" \notin levels /\ "WARN" \in levels -> "WARN"
    [] OTHER -> "OK"

\* The highest level found; with none, a blind spot keeps it from OK.
VerdictOf(levels, unknown) ==
  CASE "FAIL" \in levels -> "FAIL"
    [] "FAIL" \notin levels /\ "WARN" \in levels -> "WARN"
    [] levels \cap Levels = {} /\ unknown -> "UNKNOWN"
    [] OTHER -> "OK"

\* A rule's result, from what it found and whether it was blind.
Result(levels, unknown) ==
  [levels |-> levels, verdict |-> VerdictOf(levels, unknown)]

\* The results of one command's rules joined. A part that was blind but did
\* find something has already lost its UNKNOWN here.
Merge(results) ==
  Result(UNION {r.levels : r \in results}, \E r \in results : r.verdict = "UNKNOWN")

\* The result of a command that only shows.
Display(hidden, statuses) ==
  Result({}, hidden \/ \E st \in statuses : BlindSpot(st))

ExitUsage == 64
ExitUnavailable == 69

\* Mutant: counted from one.
ExitCodeFromOne(verdict) ==
  CASE verdict = "OK" -> 1
    [] verdict = "WARN" -> 2
    [] verdict = "FAIL" -> 3
    [] OTHER -> 4

ExitCode(verdict) ==
  CASE verdict = "OK" -> 0
    [] verdict = "WARN" -> 1
    [] verdict = "FAIL" -> 2
    [] OTHER -> 3
=============================================================================
