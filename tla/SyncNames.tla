----------------------------- MODULE SyncNames -----------------------------
(***************************************************************************)
(* synchronous_standby_names: what the server accepts, how it chooses its  *)
(* synchronous standbys by it, and how kbdiag reads the same text          *)
(* (parseSyncNames).                                                       *)
(*                                                                         *)
(* Abstracted: a text is the sequence of its tokens.  Whatever stands      *)
(* between double quotes is one token, whether it looks like a name, a     *)
(* number or a parenthesis; blanks, and the case of keywords, are gone.    *)
(***************************************************************************)
EXTENDS Naturals, Sequences, FiniteSets

CONSTANT Spellings    \* what a standby may be called

Word(s) == [s |-> s, quoted |-> FALSE]
Quoted(s) == [s |-> s, quoted |-> TRUE]

Numerals == <<"1", "2", "3">>
IsNumeral(t) == ~t.quoted /\ \E n \in DOMAIN Numerals : Numerals[n] = t.s
NumberOf(t) == CHOOSE n \in DOMAIN Numerals : Numerals[n] = t.s

Open == Word("(")
Close == Word(")")
Comma == Word(",")

-----------------------------------------------------------------------------
(* The server's side: a setting, and the ways to write it *)

None == [method |-> "off", num |-> 0, members |-> <<>>]
First(num, members) == [method |-> "first", num |-> num, members |-> members]
Any(num, members) == [method |-> "any", num |-> num, members |-> members]

\* A name is a word or is quoted; FIRST and ANY name a standby only in quotes.
Names == {t \in [s : Spellings, quoted : BOOLEAN] :
            t \notin {Open, Close, Comma, Word("first"), Word("ANY")}}
Legal(set) ==
  \/ set = None
  \/ set \in [method : {"first", "any"}, num : DOMAIN Numerals, members : Seq(Names) \ {<<>>}]

Between(members) ==
  [i \in 1..(2 * Len(members) - 1) |-> IF i % 2 = 1 THEN members[(i + 1) \div 2] ELSE Comma]

InParentheses(set) ==
  <<Word(Numerals[set.num]), Open>> \o Between(set.members) \o <<Close>>

\* A list alone asks for one by priority; a number alone means FIRST; the
\* keywords are written in any case.
Texts(set) ==
  CASE set.method = "off" -> {<<>>}
    [] set.method = "any" -> {<<Word("ANY")>> \o InParentheses(set)}
    [] OTHER -> {<<Word("first")>> \o InParentheses(set), InParentheses(set)} \cup
                (IF set.num = 1 THEN {Between(set.members)} ELSE {})

\* Of the standbys that stream, which the server counts: all that are listed,
\* or the first so many of them in the order of the list.
Rank(set, s) == CHOOSE i \in DOMAIN set.members :
                  /\ set.members[i].s \in {s, "*"}
                  /\ \A j \in 1..(i - 1) : set.members[j].s \notin {s, "*"}
Eligible(set, streaming) ==
  {s \in streaming : \E i \in DOMAIN set.members : set.members[i].s \in {s, "*"}}
Ahead(set, eligible, s) ==
  {t \in eligible : Rank(set, t) < Rank(set, s)}
SyncState(set, streaming, s) ==
  LET eligible == Eligible(set, streaming)
  IN IF s \notin eligible THEN "async"
     ELSE IF set.method = "any" THEN "quorum"
     ELSE IF Cardinality(Ahead(set, eligible, s)) < set.num THEN "sync"
     ELSE "potential"

-----------------------------------------------------------------------------
(* kbdiag's side *)

NotUnderstood == [ok |-> FALSE, need |-> 0, names |-> <<>>]
Understood(need, names) == [ok |-> TRUE, need |-> need, names |-> names]

IsMark(t) == t \in {Open, Close, Comma}

\* name {, name}
IsList(toks) ==
  /\ Len(toks) % 2 = 1
  /\ \A i \in DOMAIN toks : IF i % 2 = 1 THEN ~IsMark(toks[i]) ELSE toks[i] = Comma
NamesIn(toks) == [i \in 1..((Len(toks) + 1) \div 2) |-> toks[2 * i - 1].s]

List(need, toks) ==
  IF IsList(toks) THEN Understood(need, NamesIn(toks)) ELSE NotUnderstood

Method(toks) ==
  IF Len(toks) > 1 /\ toks[1] \in {Word("first"), Word("ANY")} THEN 1 ELSE 0

\* Mutant: a number is the number asked for wherever it stands first.
NumberedByDigit(toks, i) == i < Len(toks) /\ IsNumeral(toks[i + 1])

\* Is there a number, and a parenthesis after it, behind the method?
Numbered(toks, i) ==
  i + 1 < Len(toks) /\ IsNumeral(toks[i + 1]) /\ toks[i + 2] = Open

Parse(toks) ==
  LET i == Method(toks)
      n == Len(toks)
  IN CASE n = 0 -> Understood(0, <<>>)
       [] n > 0 /\ Numbered(toks, i) ->
            IF toks[n] = Close THEN List(NumberOf(toks[i + 1]), SubSeq(toks, i + 3, n - 1))
            ELSE NotUnderstood
       [] n > 0 /\ ~Numbered(toks, i) -> IF i = 1 THEN NotUnderstood ELSE List(1, toks)
=============================================================================
