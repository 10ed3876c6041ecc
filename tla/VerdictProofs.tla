--------------------------- MODULE VerdictProofs ---------------------------
(***************************************************************************)
(* What rule.verdictOf, rule.Merge and report.ExitCode guarantee, for every *)
(* set of findings and every number of joined results.                      *)
(***************************************************************************)
EXTENDS Verdict, TLAPS

IsResult(r) == \E L \in SUBSET Levels, u \in BOOLEAN : r = Result(L, u)

\* A result says UNKNOWN exactly when nothing was found and something was
\* hidden: a finding is never hidden behind a blind spot.
LEMMA UnknownMeansBlind ==
  ASSUME NEW L \in SUBSET Levels, NEW u \in BOOLEAN
  PROVE  VerdictOf(L, u) = "UNKNOWN" <=> L = {} /\ u
BY DEF VerdictOf, Levels

\* Joining results loses nothing a reader of the verdict could tell: Merge of
\* any set of results judges as one rule would that found what they found and
\* was blind where they were, although a part that found something has already
\* dropped its own UNKNOWN (Merge).
THEOREM MergeIsLossless ==
  ASSUME NEW S, NEW L \in [S -> SUBSET Levels], NEW u \in [S -> BOOLEAN]
  PROVE  Merge({Result(L[x], u[x]) : x \in S}).verdict
           = VerdictOf(UNION {L[x] : x \in S}, \E x \in S : u[x])
<1> DEFINE R == {Result(L[x], u[x]) : x \in S}
           All == UNION {L[x] : x \in S}
<1> DEFINE Levs == {r.levels : r \in R}
<1>0. \A x \in S : /\ Result(L[x], u[x]).levels = L[x]
                  /\ Result(L[x], u[x]).verdict = VerdictOf(L[x], u[x])
  BY DEF Result
<1>a. Levs = {L[x] : x \in S}
  <2>1. \A l \in Levs : \E x \in S : l = L[x]
    BY <1>0
  <2>2. \A x \in S : L[x] \in Levs
    <3> TAKE x \in S
    <3>1. Result(L[x], u[x]) \in R
      OBVIOUS
    <3> QED BY <3>1, <1>0
  <2> QED BY <2>1, <2>2
<1>1. UNION Levs = All
  BY <1>a
<1>2. All \in SUBSET Levels
  OBVIOUS
<1>3. (\E r \in R : r.verdict = "UNKNOWN") <=> \E x \in S : L[x] = {} /\ u[x]
  <2>1. (\E r \in R : r.verdict = "UNKNOWN") <=> \E x \in S : VerdictOf(L[x], u[x]) = "UNKNOWN"
    <3>1. ASSUME NEW r \in R, r.verdict = "UNKNOWN"
          PROVE  \E x \in S : VerdictOf(L[x], u[x]) = "UNKNOWN"
      BY <3>1, <1>0
    <3>2. ASSUME NEW x \in S, VerdictOf(L[x], u[x]) = "UNKNOWN"
          PROVE  \E r \in R : r.verdict = "UNKNOWN"
      <4>1. Result(L[x], u[x]) \in R
        OBVIOUS
      <4> QED BY <4>1, <3>2, <1>0
    <3> QED BY <3>1, <3>2
  <2>2. \A x \in S : VerdictOf(L[x], u[x]) = "UNKNOWN" <=> L[x] = {} /\ u[x]
    BY UnknownMeansBlind
  <2> QED BY <2>1, <2>2
<1>4. Merge(R).verdict = VerdictOf(All, \E r \in R : r.verdict = "UNKNOWN")
  BY <1>1 DEF Merge, Result
<1>5. CASE All = {}
  <2>1. \A x \in S : L[x] = {}
    BY <1>5
  <2>2. (\E r \in R : r.verdict = "UNKNOWN") <=> \E x \in S : u[x]
    BY <2>1, <1>3
  <2> QED BY <2>2, <1>4, <1>5 DEF VerdictOf, Levels
<1>6. CASE All # {}
  <2>1. "FAIL" \in All \/ "WARN" \in All
    BY <1>2, <1>6 DEF Levels
  <2> QED BY <2>1, <1>4 DEF VerdictOf, Levels
<1> QED BY <1>5, <1>6

\* Two of them.
LEMMA MergeOfTwo ==
  ASSUME NEW K \in SUBSET Levels, NEW L \in SUBSET Levels, NEW b \in BOOLEAN, NEW u \in BOOLEAN
  PROVE  Merge({Result(K, b), Result(L, u)}).verdict = VerdictOf(K \cup L, b \/ u)
<1> DEFINE A == Result(K, b)
           B == Result(L, u)
           blind == \E r \in {A, B} : r.verdict = "UNKNOWN"
<1>1. A.levels = K /\ B.levels = L /\ A.verdict = VerdictOf(K, b) /\ B.verdict = VerdictOf(L, u)
  BY DEF Result
<1>2. UNION {r.levels : r \in {A, B}} = K \cup L
  <2> HIDE DEF A, B
  <2> QED BY <1>1
<1>3. blind <=> (K = {} /\ b) \/ (L = {} /\ u)
  <2>1. blind <=> VerdictOf(K, b) = "UNKNOWN" \/ VerdictOf(L, u) = "UNKNOWN"
    BY <1>1
  <2> QED BY <2>1, UnknownMeansBlind
<1>4. Merge({A, B}).verdict = VerdictOf(K \cup L, blind)
  BY <1>2 DEF Merge, Result
<1> HIDE DEF A, B, blind
<1>5. CASE K \cup L = {}
  BY <1>3, <1>4, <1>5 DEF VerdictOf, Levels, A, B
<1>6. CASE K \cup L # {}
  <2>1. "FAIL" \in K \cup L \/ "WARN" \in K \cup L
    BY <1>6 DEF Levels
  <2>2. \A c, d : VerdictOf(K \cup L, c) = VerdictOf(K \cup L, d)
    BY <2>1 DEF VerdictOf
  <2> QED BY <1>4, <2>2 DEF A, B
<1> QED BY <1>5, <1>6

\* Two of them, and a rule that only says that something could not be read.
LEMMA MergeWithUnread ==
  ASSUME NEW K \in SUBSET Levels, NEW L \in SUBSET Levels, NEW b \in BOOLEAN, NEW u \in BOOLEAN
  PROVE  Merge({Result(K, b), Result(L, u), Result({}, TRUE)}).verdict = VerdictOf(K \cup L, TRUE)
<1> DEFINE A == Result(K, b)
           B == Result(L, u)
           C == Result({}, TRUE)
           blind == \E r \in {A, B, C} : r.verdict = "UNKNOWN"
<1>1. A.levels = K /\ B.levels = L /\ C.levels = {} /\ C.verdict = "UNKNOWN"
  BY DEF Result, VerdictOf, Levels
<1>2. UNION {r.levels : r \in {A, B, C}} = K \cup L
  <2> HIDE DEF A, B, C
  <2> QED BY <1>1
<1>3. blind
  BY <1>1
<1>4. Merge({A, B, C}).verdict = VerdictOf(K \cup L, blind)
  BY <1>2 DEF Merge, Result
<1> HIDE DEF A, B, C, blind
<1>5. Merge({A, B, C}).verdict = VerdictOf(K \cup L, TRUE)
  BY <1>3, <1>4 DEF VerdictOf
<1> QED BY <1>5 DEF A, B, C

\* The four verdicts have four exit codes, none of them the codes of a usage
\* error or of an instance that cannot be reached: a script tells them apart.
LEMMA ExitCodesTellApart ==
  /\ \A v, w \in Verdicts : ExitCode(v) = ExitCode(w) => v = w
  /\ \A v \in Verdicts : ExitCode(v) \notin {ExitUsage, ExitUnavailable}
<1>1. /\ ExitCode("OK") = 0 /\ ExitCode("WARN") = 1
      /\ ExitCode("FAIL") = 2 /\ ExitCode("UNKNOWN") = 3
  BY DEF ExitCode
<1> QED BY <1>1, SMT DEF Verdicts, ExitUsage, ExitUnavailable
=============================================================================
