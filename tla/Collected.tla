----------------------------- MODULE Collected -----------------------------
(* What a probe hands to the rules: a status, and rows when it is ok        *)
(* (facts.*, probe.collect).                                                *)
EXTENDS Verdict

NotRead == [status |-> "none", rows |-> {}]
Ok(found) == [status |-> "ok", rows |-> found]
Missing(status) == [status |-> status, rows |-> {}]
\* skipped and error are judged alike where this module is used.
Failures == {Missing(Classify("other_code"))}
=============================================================================
