----------------------------- MODULE NodeProofs -----------------------------
(* The invariants of the commands about one node, for any number of moves,  *)
(* standbys, settings, databases, filesystems and tablespaces.              *)
EXTENDS Node, SequenceTheorems, FiniteSetTheorems, FunctionTheorems, TLAPS

-----------------------------------------------------------------------------
(* parseSyncNames reads every setting the server accepts, in every form it  *)
(* may be written, as the server does: whatever the names, however many.    *)

Marking == {"(", ")", ",", "first", "ANY", "1", "2", "3"}
Tokens == [s : Spellings \cup Marking, quoted : BOOLEAN]

MembersOf(set) == [i \in DOMAIN set.members |-> set.members[i].s]

LEMMA Marks ==
  /\ \A str \in Marking : Word(str) \in Tokens
  /\ {Open, Close, Comma} \subseteq Tokens
  /\ Open # Close /\ Open # Comma /\ Comma # Close
<1>1. \A str \in Marking : Word(str) \in Tokens
  BY DEF Word, Tokens
<1>2. \A str1, str2 \in Marking : str1 # str2 => Word(str1) # Word(str2)
  BY DEF Word
<1>3. {"(", ")", ","} \subseteq Marking
  BY DEF Marking
<1>4. "(" # ")" /\ "(" # "," /\ "," # ")"
  OBVIOUS
<1> QED BY <1>1, <1>2, <1>3, <1>4 DEF Open, Close, Comma

LEMMA NamesAreTokens ==
  ASSUME NEW t \in Names
  PROVE  t \in Tokens /\ ~IsMark(t) /\ t \notin {Word("first"), Word("ANY")}
  BY DEF Names, Tokens, IsMark

\* The list of names with commas between them.
LEMMA BetweenNames ==
  ASSUME NEW members \in Seq(Names), members # <<>>
  PROVE  /\ Between(members) \in Seq(Tokens)
         /\ Len(Between(members)) = 2 * Len(members) - 1
         /\ Len(members) \in Nat \ {0}
         /\ \A i \in 1..(2 * Len(members) - 1) :
              Between(members)[i] = IF i % 2 = 1 THEN members[(i + 1) \div 2] ELSE Comma
<1> DEFINE n == 2 * Len(members) - 1
<1>1. Len(members) \in Nat \ {0}
  BY EmptySeq
<1>2. n \in Nat
  BY <1>1
<1>3. ASSUME NEW i \in 1..n
      PROVE  (IF i % 2 = 1 THEN members[(i + 1) \div 2] ELSE Comma) \in Tokens
  <2>1. CASE i % 2 = 1
    <3>1. (i + 1) \div 2 \in 1..Len(members)
      BY <1>1
    <3>2. members[(i + 1) \div 2] \in Names
      BY <3>1, ElementOfSeq
    <3> QED BY <2>1, <3>2, NamesAreTokens
  <2>2. CASE i % 2 # 1
    BY <2>2, Marks
  <2> QED BY <2>1, <2>2
<1>4. Between(members) \in [1..n -> Tokens]
  BY <1>3 DEF Between
<1>5. Between(members) \in Seq(Tokens) /\ Len(Between(members)) = n
  BY <1>2, <1>4
<1> QED BY <1>1, <1>5 DEF Between

\* It is read as the list of these names.
LEMMA ListRead ==
  ASSUME NEW members \in Seq(Names), members # <<>>, NEW need
  PROVE  List(need, Between(members)) =
           Understood(need, [i \in DOMAIN members |-> members[i].s])
<1> DEFINE toks == Between(members)
<1> DEFINE n == Len(members)
<1>1. /\ toks \in Seq(Tokens) /\ Len(toks) = 2 * n - 1 /\ n \in Nat \ {0}
      /\ \A i \in 1..(2 * n - 1) : toks[i] = IF i % 2 = 1 THEN members[(i + 1) \div 2] ELSE Comma
  BY BetweenNames
<1>2. DOMAIN toks = 1..(2 * n - 1) /\ DOMAIN members = 1..n
  BY <1>1, LenProperties
<1> HIDE DEF toks
<1>3. IsList(toks)
  <2>1. Len(toks) % 2 = 1
    BY <1>1
  <2>2. ASSUME NEW i \in DOMAIN toks, i % 2 = 1
        PROVE  ~IsMark(toks[i])
    <3>1. (i + 1) \div 2 \in 1..n
      BY <1>1, <1>2
    <3>2. members[(i + 1) \div 2] \in Names
      BY <3>1, ElementOfSeq
    <3> QED BY <1>1, <1>2, <2>2, <3>2, NamesAreTokens
  <2>3. ASSUME NEW i \in DOMAIN toks, i % 2 # 1
        PROVE  toks[i] = Comma
    BY <1>1, <1>2, <2>3
  <2> QED BY <2>1, <2>2, <2>3 DEF IsList
<1>4. NamesIn(toks) = [i \in DOMAIN members |-> members[i].s]
  <2>1. (Len(toks) + 1) \div 2 = n
    BY <1>1
  <2>2. ASSUME NEW i \in 1..n
        PROVE  toks[2 * i - 1].s = members[i].s
    <3>1. 2 * i - 1 \in 1..(2 * n - 1) /\ (2 * i - 1) % 2 = 1 /\ ((2 * i - 1) + 1) \div 2 = i
      BY <1>1
    <3> QED BY <1>1, <3>1
  <2> QED BY <1>2, <2>1, <2>2 DEF NamesIn
<1> QED BY <1>3, <1>4 DEF List, toks

\* A list in parentheses, whatever stands before it.
LEMMA Enclosed ==
  ASSUME NEW members \in Seq(Names), members # <<>>, NEW before \in Seq(Tokens)
  PROVE  LET toks == (before \o Between(members)) \o <<Close>>
         IN /\ toks \in Seq(Tokens)
            /\ Len(toks) = Len(before) + 2 * Len(members)
            /\ \A i \in 1..Len(before) : toks[i] = before[i]
            /\ toks[Len(toks)] = Close
            /\ SubSeq(toks, Len(before) + 1, Len(toks) - 1) = Between(members)
<1> DEFINE list == Between(members)
<1> DEFINE b == Len(before)
<1> DEFINE n == Len(list)
<1> DEFINE left == before \o list
<1> DEFINE end == <<Close>>
<1> DEFINE toks == left \o end
<1>1. list \in Seq(Tokens) /\ n = 2 * Len(members) - 1 /\ Len(members) \in Nat \ {0}
  BY BetweenNames
<1>2. b \in Nat /\ n \in Nat \ {0}
  BY <1>1, LenProperties
<1> HIDE DEF list
<1>3. /\ left \in Seq(Tokens) /\ Len(left) = b + n
      /\ \A i \in 1..(b + n) : left[i] = IF i <= b THEN before[i] ELSE list[i - b]
  BY <1>1, ConcatProperties
<1> HIDE DEF left
<1>4. end \in Seq(Tokens) /\ Len(end) = 1 /\ end[1] = Close
  BY Marks
<1> HIDE DEF end
<1>5. /\ toks \in Seq(Tokens) /\ Len(toks) = b + n + 1
      /\ \A i \in 1..(b + n + 1) : toks[i] = IF i <= b + n THEN left[i] ELSE end[i - (b + n)]
  <2>1. left \in Seq(Tokens) /\ end \in Seq(Tokens)
    BY <1>3, <1>4
  <2>2. /\ left \o end \in Seq(Tokens)
        /\ Len(left \o end) = Len(left) + Len(end)
        /\ \A i \in 1..(Len(left) + Len(end)) :
             (left \o end)[i] = IF i <= Len(left) THEN left[i] ELSE end[i - Len(left)]
    BY <2>1, ConcatProperties, Zenon
  <2> QED BY <1>3, <1>4, <2>2
<1> HIDE DEF toks
<1>6. \A i \in 1..b : toks[i] = before[i]
  BY <1>2, <1>3, <1>5
<1>7. toks[Len(toks)] = Close
  BY <1>2, <1>4, <1>5
<1>8. SubSeq(toks, b + 1, b + n) = list
  <2> DEFINE part == SubSeq(toks, b + 1, b + n)
  <2>1. \A i \in (b + 1)..(b + n) : toks[i] \in Tokens
    BY <1>2, <1>5, ElementOfSeq
  <2>2. /\ part \in Seq(Tokens) /\ Len(part) = n
        /\ \A i \in 1..n : part[i] = toks[b + i]
    <3>1. /\ part \in Seq(Tokens)
          /\ Len(part) = IF b + 1 <= b + n THEN (b + n) - (b + 1) + 1 ELSE 0
          /\ \A i \in 1..((b + n) - (b + 1) + 1) : part[i] = toks[(b + 1) + i - 1]
      <4>1. b + 1 \in Int /\ b + n \in Int
        BY <1>2
      <4> QED BY <2>1, <4>1, SubSeqProperties
    <3> HIDE DEF part
    <3>2. (b + n) - (b + 1) + 1 = n /\ b + 1 <= b + n
      BY <1>2
    <3>3. \A i \in 1..n : (b + 1) + i - 1 = b + i
      BY <1>2
    <3> QED BY <3>1, <3>2, <3>3
  <2> HIDE DEF part
  <2>3. \A i \in 1..n : toks[b + i] = list[i]
    BY <1>2, <1>3, <1>5
  <2>4. \A i \in 1..n : part[i] = list[i]
    BY <2>2, <2>3
  <2>5. part = list
    BY <1>1, <2>2, <2>4, SeqEqual
  <2> QED BY <2>5 DEF part
<1>9. Len(toks) - 1 = b + n /\ Len(toks) = b + 2 * Len(members)
  BY <1>1, <1>2, <1>5
<1> QED BY <1>5, <1>6, <1>7, <1>8, <1>9 DEF toks, left, list, end

LEMMA NumbersRead ==
  ASSUME NEW num \in DOMAIN Numerals
  PROVE  LET t == Word(Numerals[num])
         IN /\ t \in Tokens /\ IsNumeral(t) /\ NumberOf(t) = num
            /\ t \notin {Word("first"), Word("ANY")}
<1>1. num \in {1, 2, 3} /\ DOMAIN Numerals = {1, 2, 3}
  BY DEF Numerals
<1>2. \A i, j \in {1, 2, 3} : Numerals[i] = Numerals[j] => i = j
  BY DEF Numerals
<1>3. Numerals[num] \in Marking /\ Numerals[num] \notin {"first", "ANY"}
  <2>1. Numerals[1] = "1" /\ Numerals[2] = "2" /\ Numerals[3] = "3"
    BY DEF Numerals
  <2>2. /\ {"1", "2", "3"} \subseteq Marking
        /\ "1" # "first" /\ "2" # "first" /\ "3" # "first"
        /\ "1" # "ANY" /\ "2" # "ANY" /\ "3" # "ANY"
    BY DEF Marking
  <2> QED BY <1>1, <2>1, <2>2
<1> DEFINE t == Word(Numerals[num])
<1>4. t \in Tokens /\ t.s = Numerals[num] /\ t.quoted = FALSE
  BY <1>3 DEF Word, Tokens
<1>5. IsNumeral(t)
  BY <1>4 DEF IsNumeral
<1>6. NumberOf(t) = num
  BY <1>1, <1>2, <1>4 DEF NumberOf
<1>7. t \notin {Word("first"), Word("ANY")}
  BY <1>3, <1>4 DEF Word
<1> QED BY <1>4, <1>5, <1>6, <1>7
LEMMA Associative == \A S : \A a, b, c \in Seq(S) : (a \o b) \o c = a \o (b \o c)
  BY ConcatAssociative, Zenon

LEMMA Regrouped ==
  \A S : \A a, b, c, d \in Seq(S) : a \o ((b \o c) \o d) = ((a \o b) \o c) \o d
<1> DEFINE Cat(s, t) == s \o t
<1>1. \A S : \A s, t \in Seq(S) : Cat(s, t) \in Seq(S)
  BY ConcatProperties, Zenon
<1>2. \A S : \A s, t, u \in Seq(S) : Cat(Cat(s, t), u) = Cat(s, Cat(t, u))
  BY Associative, Zenon
<1>3. \A S : \A a, b, c, d \in Seq(S) : Cat(a, Cat(Cat(b, c), d)) = Cat(Cat(Cat(a, b), c), d)
  <2> HIDE DEF Cat
  <2> QED BY <1>1, <1>2
<1> QED BY <1>3, Zenon

\* FIRST N (...), ANY N (...).
LEMMA KeywordRead ==
  ASSUME NEW set, set.num \in DOMAIN Numerals,
         set.members \in Seq(Names), set.members # <<>>,
         NEW word \in {Word("first"), Word("ANY")}
  PROVE  Parse(<<word>> \o InParentheses(set)) = Understood(set.num, MembersOf(set))
<1> DEFINE members == set.members
<1> DEFINE list == Between(members)
<1> DEFINE num == Word(Numerals[set.num])
<1> DEFINE before == <<word, num, Open>>
<1> DEFINE toks == (before \o list) \o <<Close>>
<1>1. word \in Tokens /\ num \in Tokens /\ Open \in Tokens /\ Close \in Tokens
  BY Marks, NumbersRead DEF Marking
<1>2. list \in Seq(Tokens) /\ Len(members) \in Nat \ {0}
  BY BetweenNames
<1>3. before \in Seq(Tokens) /\ Len(before) = 3
      /\ before[1] = word /\ before[2] = num /\ before[3] = Open
  BY <1>1
<1>4. <<word>> \o InParentheses(set) = toks
  <2> DEFINE one == <<word>>
  <2> DEFINE two == <<num, Open>>
  <2> DEFINE end == <<Close>>
  <2>1. one \in Seq(Tokens) /\ two \in Seq(Tokens) /\ end \in Seq(Tokens)
    BY <1>1
  <2>2. one \o two = before
    <3>1. Len(one) = 1 /\ one[1] = word /\ Len(two) = 2 /\ two[1] = num /\ two[2] = Open
      OBVIOUS
    <3> HIDE DEF one, two, before, num
    <3>2. /\ one \o two \in Seq(Tokens)
          /\ Len(one \o two) = Len(one) + Len(two)
          /\ \A i \in 1..(Len(one) + Len(two)) :
               (one \o two)[i] = IF i <= Len(one) THEN one[i] ELSE two[i - Len(one)]
      BY <2>1, ConcatProperties, Zenon
    <3>3. /\ Len(one \o two) = Len(before)
          /\ \A i \in 1..Len(one \o two) : (one \o two)[i] = before[i]
      BY <1>3, <3>1, <3>2
    <3> QED BY <1>3, <3>2, <3>3, SeqEqual
  <2>3. InParentheses(set) = (two \o list) \o end
    BY DEF InParentheses
  <2> HIDE DEF one, two, end, before, list
  <2>4. one \o ((two \o list) \o end) = ((one \o two) \o list) \o end
    <3> DEFINE Cat(s, t) == s \o t
    <3>1. \A S : \A a, b, c, d \in Seq(S) :
            Cat(a, Cat(Cat(b, c), d)) = Cat(Cat(Cat(a, b), c), d)
      BY Regrouped, Zenon
    <3>2. Cat(one, Cat(Cat(two, list), end)) = Cat(Cat(Cat(one, two), list), end)
      <4> HIDE DEF Cat
      <4> QED BY <1>2, <2>1, <3>1
    <3> QED BY <3>2
  <2> QED BY <2>2, <2>3, <2>4 DEF one, end
<1>5. /\ toks \in Seq(Tokens) /\ Len(toks) = 3 + 2 * Len(members)
      /\ toks[1] = word /\ toks[2] = num /\ toks[3] = Open
      /\ toks[Len(toks)] = Close
      /\ SubSeq(toks, 4, Len(toks) - 1) = list
  <2>1. /\ toks \in Seq(Tokens)
        /\ Len(toks) = Len(before) + 2 * Len(members)
        /\ \A i \in 1..Len(before) : toks[i] = before[i]
        /\ toks[Len(toks)] = Close
        /\ SubSeq(toks, Len(before) + 1, Len(toks) - 1) = list
    BY <1>3, Enclosed
  <2> HIDE DEF toks, before, list
  <2> QED BY <1>3, <2>1
<1> HIDE DEF toks, list
<1>6. Method(toks) = 1
  BY <1>2, <1>5 DEF Method
<1>7. IsNumeral(num) /\ NumberOf(num) = set.num
  BY NumbersRead
<1>8. Numbered(toks, 1) /\ Len(toks) > 0
  BY <1>2, <1>5, <1>7 DEF Numbered
<1>9. List(set.num, list) = Understood(set.num, MembersOf(set))
  BY ListRead DEF list, MembersOf
<1>10. Parse(toks) = List(NumberOf(toks[2]), SubSeq(toks, 4, Len(toks) - 1))
  BY <1>2, <1>5, <1>6, <1>8 DEF Parse
<1> QED BY <1>4, <1>5, <1>7, <1>9, <1>10

\* N (...).
LEMMA NumberRead ==
  ASSUME NEW set, set.num \in DOMAIN Numerals,
         set.members \in Seq(Names), set.members # <<>>
  PROVE  Parse(InParentheses(set)) = Understood(set.num, MembersOf(set))
<1> DEFINE members == set.members
<1> DEFINE list == Between(members)
<1> DEFINE num == Word(Numerals[set.num])
<1> DEFINE before == <<num, Open>>
<1> DEFINE toks == (before \o list) \o <<Close>>
<1>1. num \in Tokens /\ Open \in Tokens
  BY Marks, NumbersRead
<1>2. list \in Seq(Tokens) /\ Len(members) \in Nat \ {0}
  BY BetweenNames
<1>3. before \in Seq(Tokens) /\ Len(before) = 2 /\ before[1] = num /\ before[2] = Open
  BY <1>1
<1>4. InParentheses(set) = toks
  BY DEF InParentheses
<1>5. /\ Len(toks) = 2 + 2 * Len(members)
      /\ toks[1] = num /\ toks[2] = Open
      /\ toks[Len(toks)] = Close
      /\ SubSeq(toks, 3, Len(toks) - 1) = list
  <2>1. /\ Len(toks) = Len(before) + 2 * Len(members)
        /\ \A i \in 1..Len(before) : toks[i] = before[i]
        /\ toks[Len(toks)] = Close
        /\ SubSeq(toks, Len(before) + 1, Len(toks) - 1) = list
    BY <1>3, Enclosed
  <2> HIDE DEF toks, before, list
  <2> QED BY <1>3, <2>1
<1> HIDE DEF toks, list
<1>6. /\ IsNumeral(num) /\ NumberOf(num) = set.num
      /\ num \notin {Word("first"), Word("ANY")}
  BY NumbersRead
<1>7. Method(toks) = 0
  BY <1>5, <1>6 DEF Method
<1>8. Numbered(toks, 0) /\ Len(toks) > 0
  BY <1>2, <1>5, <1>6 DEF Numbered
<1>9. List(set.num, list) = Understood(set.num, MembersOf(set))
  BY ListRead DEF list, MembersOf
<1>10. Parse(toks) = List(NumberOf(toks[1]), SubSeq(toks, 3, Len(toks) - 1))
  BY <1>2, <1>5, <1>7, <1>8 DEF Parse
<1> QED BY <1>4, <1>5, <1>6, <1>9, <1>10

\* A list alone.
LEMMA PlainRead ==
  ASSUME NEW set, set.num = 1, set.members \in Seq(Names), set.members # <<>>
  PROVE  Parse(Between(set.members)) = Understood(set.num, MembersOf(set))
<1> DEFINE members == set.members
<1> DEFINE toks == Between(members)
<1>1. /\ Len(toks) = 2 * Len(members) - 1 /\ Len(members) \in Nat \ {0}
      /\ \A i \in 1..(2 * Len(members) - 1) :
           toks[i] = IF i % 2 = 1 THEN members[(i + 1) \div 2] ELSE Comma
  BY BetweenNames
<1>2. toks[1] = members[1] /\ members[1] \in Names
  <2>1. 1 \in 1..(2 * Len(members) - 1) /\ 1 % 2 = 1 /\ (1 + 1) \div 2 = 1
    BY <1>1
  <2>2. 1 \in 1..Len(members)
    BY <1>1
  <2> QED BY <1>1, <2>1, <2>2, ElementOfSeq
<1> HIDE DEF toks
<1>3. Method(toks) = 0
  BY <1>2, NamesAreTokens DEF Method
<1>4. ~Numbered(toks, 0)
  <2>1. ASSUME 1 < Len(toks)
        PROVE  toks[2] # Open
    <3>1. 2 \in 1..(2 * Len(members) - 1) /\ 2 % 2 # 1
      BY <1>1, <2>1
    <3> QED BY <1>1, <3>1, Marks
  <2> QED BY <2>1 DEF Numbered
<1>5. Len(toks) > 0
  BY <1>1
<1>6. List(1, toks) = Understood(1, MembersOf(set))
  BY ListRead DEF toks, MembersOf
<1>7. Parse(toks) = List(1, toks)
  BY <1>3, <1>4, <1>5 DEF Parse
<1> QED BY <1>6, <1>7 DEF toks

\* Nothing.
LEMMA EmptyRead == Parse(<<>>) = Understood(0, <<>>)
  BY DEF Parse

\* Whatever the server accepts as synchronous_standby_names, in each of the
\* forms of its grammar, parseSyncNames reads as the number and the names the
\* server goes by.
THEOREM ReadAsWritten ==
  ASSUME NEW set, Legal(set), NEW form \in Texts(set)
  PROVE  Parse(form) = Understood(set.num, MembersOf(set))
<1>1. CASE set = None
  <2>1. form = <<>> /\ set.num = 0 /\ MembersOf(set) = <<>>
    BY <1>1 DEF None, Texts, MembersOf
  <2> QED BY <2>1, EmptyRead
<1>2. CASE set # None
  <2>1. /\ set.method \in {"first", "any"} /\ set.num \in DOMAIN Numerals
        /\ set.members \in Seq(Names) /\ set.members # <<>>
    BY <1>2 DEF Legal
  <2>2. CASE set.method = "any"
    <3>1. form = <<Word("ANY")>> \o InParentheses(set)
      BY <2>2 DEF Texts
    <3> QED BY <2>1, <3>1, KeywordRead
  <2>3. CASE set.method = "first"
    <3>1. \/ form = <<Word("first")>> \o InParentheses(set)
          \/ form = InParentheses(set)
          \/ set.num = 1 /\ form = Between(set.members)
      BY <2>3 DEF Texts
    <3> QED BY <2>1, <3>1, KeywordRead, NumberRead, PlainRead
  <2> QED BY <2>1, <2>2, <2>3
<1> QED BY <1>1, <1>2

-----------------------------------------------------------------------------
(* ReadsTheSetting *)

\* The setting is one the server accepts, and the text one of its forms.
Written == Legal(setting) /\ text \in Texts(setting)

LEMMA WrittenInit == Init => Written
<1> SUFFICES ASSUME Init PROVE Written
  OBVIOUS
<1>1. CASE InitReplication
  <2>1. setting \in Settings
    BY <1>1, ReplicationAssumption DEF InitReplication
  <2> QED BY <1>1, <2>1, ReplicationAssumption DEF Written, InitReplication
<1>2. CASE PlainReplication
  BY <1>2 DEF Written, PlainReplication, Legal, Texts, None
<1> QED BY <1>1, <1>2 DEF Init

LEMMA WrittenNext == Written /\ [Next]_vars => Written'
<1> SUFFICES ASSUME Written, [Next]_vars PROVE Written'
  OBVIOUS
<1>same. ASSUME UNCHANGED <<setting, text>>
         PROVE  Written'
  BY <1>same DEF Written
<1>reload. CASE Reload
  <2>1. CASE setting' \in Reloads /\ text' \in Texts(setting')
    BY <2>1, ReplicationAssumption DEF Written
  <2>2. CASE UNCHANGED <<setting, text>>
    BY <2>2, <1>same
  <2> QED BY <1>reload, <2>1, <2>2 DEF Reload
<1>1. CASE Instance
  <2>1. CASE ReplicationMoves
    <3>1. CASE Receive \/ Connect \/ Disconnect \/ PauseOrResume
      BY <3>1, <1>same DEF Receive, Connect, Disconnect, PauseOrResume
    <3>2. CASE \E s \in Standbys : Send(s) \/ SlotComesOrGoes(s)
      BY <3>2, <1>same DEF Send, SlotComesOrGoes
    <3> QED BY <2>1, <3>1, <3>2, <1>reload DEF ReplicationMoves
  <2>2. CASE Promote
    BY <2>2, <1>same DEF Promote
  <2>3. CASE UNCHANGED replication
    BY <2>3, <1>same DEF replication
  <2> QED BY <1>1, <2>1, <2>2, <2>3 DEF Instance
<1>2. CASE Identify \/ Probe \/ Report
  BY <1>2, <1>same DEF Identify, Probe, Report, instance, replication
<1>3. CASE UNCHANGED vars
  BY <1>3, <1>same DEF vars, instance, replication
<1> QED BY <1>1, <1>2, <1>3 DEF Next

\* kbdiag reads synchronous_standby_names as the server does, however long the
\* list and in whichever form it is written (parseSyncNames).
THEOREM SettingRead == Spec => []ReadsTheSetting
<1>1. Written => ReadsTheSetting
  BY ReadAsWritten DEF Written, ReadsTheSetting, MembersOf
<1> QED BY <1>1, WrittenInit, WrittenNext, PTL DEF Spec

-----------------------------------------------------------------------------
(* The inductive invariant *)

Trouble(id, level, of) == [id |-> id, level |-> level, of |-> of]

\* How far the run is, and what it has by then.
Stages ==
  /\ pos = 0 => touched = {} /\ glimpses = {} /\ saw = [p \in Results |-> NotRead]
  /\ pos # 0 => role \in Roles
  /\ pos # Done <=> exit = Running
  /\ pos = Done => exit = ExitCode(Judgement.verdict)

\* What lasts is so now, what is so now has shown, and been put together.
Noticed ==
  pos # 0 => held \subseteq Troubles /\ Troubles \subseteq touched /\ Glimpse \subseteq glimpses

\* A primary was one when the role was read. A standby that was promoted has
\* had no upstream before.
RoleLasts ==
  /\ role = "primary" => ~recovering
  /\ role = "standby" => \A f \in held :
       f.id \notin {"repl.sync_short", "vacuum.disabled", "vacuum.table_disabled"}
  /\ role = "standby" /\ ~recovering /\ cmd \in {"status", "repl"} =>
       receiver = "none" /\ Trouble("inst.upstream", "WARN", Nowhere) \in touched

\* The times tell the last attempt; archive_mode is one that a standby obeys.
Archiver ==
  /\ attempt = "failed" <=> failedAt > archivedAt
  /\ cmd = "archive" /\ role = "standby" /\ held # {} => mode = "always"

\* Where a tablespace is mounted may change, not where the data and the WAL are.
Disks ==
  cmd = "space" =>
    /\ Nowhere \notin {where["data"], where["wal"]}
    /\ place = "socket" => host = "server" /\ ~mirrored

\* For each command: what its probes have read has shown, and what lasts is in
\* what they have read.
SlotsTell ==
  LET list == saw["slot.list"]
  IN cmd = "slots" =>
       /\ list.status # "not_applicable"
       /\ list.status = "ok" =>
            /\ \A r \in list.rows : ~r.active => Trouble("slot.inactive", "WARN", r.slot) \in touched
            /\ held # {} => \E r \in list.rows : ~r.active

Alarming(a) ==
  /\ a.mode # "off" /\ ~(role = "standby" /\ a.mode # "always")
  /\ a.command /\ Failing(a)
ArchiveTells ==
  LET read == saw["archive.status"]
  IN cmd = "archive" =>
       /\ read.status # "not_applicable"
       /\ read.status = "ok" =>
            /\ (\E a \in read.rows : Alarming(a)) => Trouble("archive.failing", "WARN", Nowhere) \in touched
            /\ held # {} => \E a \in read.rows : Alarming(a)

AtLeast(ages, line) == \E k \in Counters : ages[k] >= line[k]
FreezeTells ==
  LET read == saw["freeze.databases"]
      limits == saw["freeze.limits"]
  IN cmd = "freeze" =>
       /\ "not_applicable" \notin {read.status, limits.status}
       /\ limits.status = "ok" => limits.rows = {maxAge}
       /\ read.status = "ok" =>
            /\ read.rows # {}
            /\ \A d \in read.rows :
                 /\ AtLeast(d.age, StopAge) => Trouble("freeze.database_age", "FAIL", d.name) \in touched
                 /\ AtLeast(d.age, maxAge) => Trouble("freeze.database_age", "WARN", d.name) \in touched
            /\ \A f \in held : \E d \in read.rows :
                 AtLeast(d.age, IF f.level = "FAIL" THEN StopAge ELSE maxAge)

Weighed(r) ==
  /\ r.fs = where[r.dir] /\ r.avail \in Nat
  /\ r.avail < Segment => Trouble("space.disk_full", "FAIL", r.fs) \in touched
  /\ Trouble("space.disk_full", "FAIL", r.fs) \in held => r.avail < Segment
DiskTells ==
  LET disk == saw["space.disk"]
  IN cmd = "space" =>
       /\ pos <= 3 => disk = NotRead
       /\ pos <= 5 /\ disk.status # "ok" => disk.rows = {}
       /\ disk.status = "ok" => disk.rows # {}
       /\ pos > 3 /\ disk.rows # {} => \E r \in disk.rows : r.dir = "data"
       /\ pos > 4 /\ disk.rows # {} => \E r \in disk.rows : r.dir = "wal"
       /\ ~mirrored => \A r \in disk.rows : r.dir \in {"data", "wal"} => Weighed(r)

SpaceTells ==
  LET wal == saw["space.wal"]
      info == saw["inst.info"]
  IN cmd = "space" =>
       /\ wal.status # "not_applicable" /\ (wal.status = "ok" => wal.rows = SpaceWAL)
       /\ info.rows # {} => info.status = "ok"
       /\ \A r \in saw["space.tablespaces"].rows : r.dir \notin {"data", "wal"}
       /\ /\ pos > 3 /\ place = "socket" /\ {"data", "wal"} \cap blocked = {}
          /\ \E i \in info.rows : i.dir
          => saw["space.disk"].rows # {}

\* A masked row tells nothing.
UpstreamTells ==
  LET up == saw["inst.upstream"]
      Dead(u) == u.status # "streaming" \/ Stuck(u)
      Masked(u) == u.status = "NULL"
  IN cmd \in {"status", "repl"} =>
       /\ up.status # "ok" => up.rows = {}
       /\ up.status = "not_applicable" => role = "primary"
       /\ up.status = "ok" =>
            /\ \A u, v \in up.rows : u = v
            /\ (\A u \in up.rows : ~Masked(u) /\ Dead(u)) =>
                 Trouble("inst.upstream", "WARN", Nowhere) \in touched
            /\ Trouble("inst.upstream", "WARN", Nowhere) \in held =>
                 \A u \in up.rows : Masked(u) \/ Dead(u)

StatusTells ==
  LET info == saw["inst.info"]
  IN cmd = "status" =>
       /\ info.status # "not_applicable"
       /\ info.status = "ok" =>
            /\ (\E i \in info.rows : i.connections >= Usable) =>
                 Trouble("inst.connections", "FAIL", Nowhere) \in touched
            /\ Trouble("inst.connections", "FAIL", Nowhere) \in held =>
                 \E i \in info.rows : i.connections >= Usable

ReplayTells ==
  LET replay == saw["repl.replay"]
  IN cmd = "repl" =>
       /\ replay.status = "not_applicable" => role = "primary"
       /\ replay.status = "ok" =>
            /\ (\E p \in replay.rows : p.paused) => Trouble("repl.replay_paused", "WARN", Nowhere) \in touched
            /\ Trouble("repl.replay_paused", "WARN", Nowhere) \in held => \E p \in replay.rows : p.paused

Asked(set) == IF set.commit = "on" THEN Parse(set.names).need ELSE 0
SyncTells ==
  LET down == saw["repl.downstreams"]
      sync == saw["repl.sync"]
  IN cmd = "repl" =>
       /\ down.status # "not_applicable"
       /\ down.status = "ok" =>
            /\ Cardinality(SyncStreaming(down)) \in Nat
            /\ [synchronous |-> Cardinality(SyncStreaming(down))] \in glimpses
       /\ sync.status = "not_applicable" <=> role = "standby" /\ sync # NotRead
       /\ sync.status # "ok" => sync.rows = {}
       /\ sync.status = "ok" => \E set \in sync.rows :
            /\ sync.rows = {set}
            /\ Parse(set.names).ok /\ (set.names = <<>> <=> Parse(set.names).need = 0)
            /\ Parse(set.names).need \in {s.num : s \in Settings}
            /\ [asked |-> Asked(set)] \in glimpses
            /\ \A n : Trouble("repl.sync_short", "WARN", n) \in held => Asked(set) = n /\ n # 0

\* A probe that is not for this role is not applicable, once it was its turn.
GatesTell ==
  cmd = "repl" =>
    /\ role = "standby" /\ pos > 2 => saw["repl.sync"].status = "not_applicable"
    /\ role = "primary" /\ pos > 3 => saw["inst.upstream"].status = "not_applicable"
    /\ role = "primary" /\ pos > 4 => saw["repl.replay"].status = "not_applicable"

VacuumTells ==
  LET tables == saw["vacuum.tables"]
      settings == saw["vacuum.settings"]
  IN cmd = "vacuum" =>
       /\ tables.status = "not_applicable" => role = "standby"
       /\ settings.status # "not_applicable"
       /\ tables.status = "ok" =>
            /\ \A r \in tables.rows : r.name \in Tables /\ [table |-> r] \in glimpses
            /\ \A t \in Tables : \E r \in tables.rows : r.name = t
       /\ settings.status = "ok" => \E set \in settings.rows :
            /\ settings.rows = {set} /\ [set |-> set.defaults] \in glimpses
            /\ ~(set.autovacuum /\ set.trackCounts) /\ role = "primary" =>
                 Trouble("vacuum.disabled", "WARN", Nowhere) \in touched
            /\ Trouble("vacuum.disabled", "WARN", Nowhere) \in held =>
                 ~(set.autovacuum /\ set.trackCounts)

IInv ==
  /\ TypeOK /\ Stages /\ Noticed /\ RoleLasts /\ Archiver /\ Disks
  /\ SlotsTell /\ ArchiveTells /\ FreezeTells /\ DiskTells /\ SpaceTells
  /\ UpstreamTells /\ StatusTells /\ ReplayTells /\ SyncTells
  /\ GatesTell /\ VacuumTells /\ Written

-----------------------------------------------------------------------------
(* The instance *)

ServerOK == ReplicationOK /\ StorageOK /\ UpkeepOK

LEMMA InitTimes ==
  ASSUME Init
  PROVE  /\ mode \in {"off", "on", "always"} /\ command \in BOOLEAN
         /\ attempt \in {"none", "archived", "failed"} /\ archivedAt \in Nat /\ failedAt \in Nat
         /\ attempt = "failed" <=> failedAt > archivedAt
<1>1. CASE InitArchiver
  <2>1. /\ archivedAt \in {0, 1, 3} /\ failedAt \in {0, 2}
        /\ attempt = CASE archivedAt = 0 /\ failedAt = 0 -> "none"
                       [] archivedAt > failedAt -> "archived"
                       [] OTHER -> "failed"
    BY <1>1 DEF InitArchiver, Never
  <2>2. \/ archivedAt = 0 /\ failedAt = 0
        \/ archivedAt > failedAt /\ ~(archivedAt = 0 /\ failedAt = 0)
        \/ failedAt > archivedAt /\ ~(archivedAt = 0 /\ failedAt = 0)
    BY <2>1
  <2>3. archivedAt \in Nat /\ failedAt \in Nat
    BY <2>1
  <2>4. CASE archivedAt = 0 /\ failedAt = 0
    BY <1>1, <2>1, <2>4 DEF InitArchiver
  <2>5. CASE archivedAt > failedAt /\ ~(archivedAt = 0 /\ failedAt = 0)
    BY <1>1, <2>1, <2>3, <2>5 DEF InitArchiver
  <2>6. CASE failedAt > archivedAt /\ ~(archivedAt = 0 /\ failedAt = 0)
    BY <1>1, <2>1, <2>3, <2>6 DEF InitArchiver
  <2> QED BY <2>2, <2>4, <2>5, <2>6
<1>2. CASE ~InitArchiver
  <2>1. mode = "off" /\ command = FALSE /\ attempt = "none" /\ archivedAt = 0 /\ failedAt = 0
    BY <1>2 DEF Init, Never
  <2>2. command \in BOOLEAN
    BY <2>1, Zenon
  <2>3. ~(failedAt > archivedAt) /\ archivedAt \in Nat /\ failedAt \in Nat
    BY <2>1
  <2> QED BY <2>1, <2>2, <2>3
<1> QED BY <1>1, <1>2

LEMMA InitServer == Init => ServerOK
<1> SUFFICES ASSUME Init PROVE ServerOK
  OBVIOUS
<1>1. ReplicationOK
  <2>1. 1 \in 1..MaxConnections
    BY ReplicationAssumption
  <2>2. CASE InitReplication
    <3>1. /\ recovering \in BOOLEAN /\ watchdog \in BOOLEAN /\ quiet \in BOOLEAN
          /\ paused \in BOOLEAN /\ receiver \in Receivers
      BY <2>2 DEF InitReplication, Receivers
    <3>2. setting \in Settings /\ text \in Texts(setting)
      BY <2>2, ReplicationAssumption DEF InitReplication
    <3> QED BY <2>2, <3>1, <3>2 DEF InitReplication, ReplicationOK
  <2>3. CASE recovering \in BOOLEAN /\ PlainReplication
    <3>1. setting = None /\ None \in Settings /\ text \in Texts(None)
      BY <2>3, ReplicationAssumption DEF PlainReplication, Texts, None
    <3> QED BY <2>1, <2>3, <3>1 DEF PlainReplication, ReplicationOK, Receivers, Senders, Commits
  <2> QED BY <2>2, <2>3 DEF Init
<1>2. StorageOK
  <2>1. AnyFilesystem \in Filesystems
    BY StorageAssumption DEF AnyFilesystem
  <2>2. Reached => /\ place \in {"socket", "loopback", "remote"} /\ host \in {"server", "other"}
                   /\ mirrored \in BOOLEAN
    BY StorageAssumption DEF Reached
  <2>3. PlainDisks => /\ where \in [Directories -> Filesystems \cup {Nowhere}]
                      /\ free \in [Filesystems \cup {OtherFilesystem} -> 0..Segment]
                      /\ blocked \subseteq Directories /\ spaces \subseteq Tablespaces
    BY <2>1 DEF PlainDisks, Segment
  <2>4. InitDisks /\ ~PlainDisks => /\ where \in [Directories -> Filesystems \cup {Nowhere}]
                      /\ free \in [Filesystems \cup {OtherFilesystem} -> 0..Segment]
                      /\ blocked \subseteq Directories /\ spaces \subseteq Tablespaces
    BY DEF InitDisks, Directories
  <2>5. Reached /\ (PlainDisks \/ InitDisks)
    BY DEF Init, InitDisks
  <2> QED BY <2>2, <2>3, <2>4, <2>5, InitTimes DEF StorageOK
<1>3. UpkeepOK
  <2>1. (InitAges \/ PlainAges) /\ (InitTables \/ PlainTables)
    BY DEF Init
  <2>2. /\ age \in [Databases -> [Counters -> Nat]] /\ maxAge \in MaxAges
        /\ \A d \in Databases, k \in Counters : age[d][k] <= StopAge[k]
    <3>1. CASE InitAges
      <4>1. UNION {0..StopAge[k] : k \in Counters} \subseteq Nat
        BY UpkeepAssumption
      <4> QED BY <3>1, <4>1 DEF InitAges
    <3>2. CASE PlainAges
      BY <3>2, UpkeepAssumption DEF PlainAges
    <3> QED BY <2>1, <3>1, <3>2
  <2>3. /\ dead \in [Tables -> 0..MaxTuples] /\ reltuples \in [Tables -> Lines]
        /\ reloptions \in [Tables -> Reloptions]
        /\ autovacuum \in BOOLEAN /\ trackCounts \in BOOLEAN /\ defaults \in Defaults
    <3>1. 0 \in Lines /\ 0 \in 0..MaxTuples
      BY UpkeepAssumption DEF Lines
    <3>2. CASE InitTables
      BY <3>2 DEF InitTables
    <3>3. CASE PlainTables
      <4>1. (CHOOSE o \in Reloptions : TRUE) \in Reloptions
        BY UpkeepAssumption
      <4> QED BY <3>1, <3>3, <4>1 DEF PlainTables, Defaults
    <3> QED BY <2>1, <3>2, <3>3
  <2> QED BY <2>2, <2>3 DEF UpkeepOK
<1> QED BY <1>1, <1>2, <1>3 DEF ServerOK

\* A node that is promoted has no receiver, and gets none.
LEMMA ReplicationStep ==
  ASSUME ReplicationOK, ReplicationMoves \/ Promote
  PROVE  /\ ReplicationOK' /\ (recovering' => recovering)
         /\ ~recovering' => receiver' = receiver /\ (recovering => receiver = "none")
<1> USE DEF ReplicationOK
<1>1. CASE Receive
  <2>1. receiver' \in Receivers
    BY <1>1 DEF Receive
  <2>2. quiet' \in BOOLEAN
    BY <1>1 DEF Receive
  <2> QED BY <1>1, <2>1, <2>2 DEF Receive
<1>2. CASE Connect \/ Disconnect
  <2>1. conns' \in 1..MaxConnections
    BY <1>2, ReplicationAssumption DEF Connect, Disconnect
  <2> QED BY <1>2, <2>1 DEF Connect, Disconnect
<1>3. CASE PauseOrResume
  BY <1>3 DEF PauseOrResume
<1>4. CASE Reload
  <2>1. setting' \in Settings /\ text' \in Texts(setting') /\ commit' \in Commits
    BY <1>4, ReplicationAssumption DEF Reload
  <2> QED BY <1>4, <2>1 DEF Reload
<1>5. ASSUME NEW s \in Standbys, Send(s)
      PROVE  ReplicationOK' /\ UNCHANGED <<recovering, receiver>>
  <2>1. senders' \in [Standbys -> Senders]
    BY <1>5 DEF Send, Senders
  <2> QED BY <1>5, <2>1 DEF Send
<1>6. ASSUME NEW s \in Standbys, SlotComesOrGoes(s)
      PROVE  ReplicationOK' /\ UNCHANGED <<recovering, receiver>>
  <2>1. slots' \subseteq Standbys
    BY <1>6 DEF SlotComesOrGoes
  <2> QED BY <1>6, <2>1 DEF SlotComesOrGoes
<1>7. CASE Promote
  BY <1>7 DEF Promote
<1>8. UNCHANGED <<recovering, receiver>> \/ Receive \/ Promote
  BY <1>1, <1>2, <1>3, <1>4, <1>5, <1>6, <1>7
     DEF ReplicationMoves, Connect, Disconnect, PauseOrResume, Reload
<1>9. ReplicationOK'
  BY <1>1, <1>2, <1>3, <1>4, <1>5, <1>6, <1>7 DEF ReplicationMoves
<1>10. CASE UNCHANGED <<recovering, receiver>> 
  <2>1. recovering /\ ~recovering' => FALSE
    BY <1>10
  <2> QED BY <1>9, <1>10, <2>1
<1> QED BY <1>1, <1>7, <1>8, <1>9, <1>10 DEF Receive, Promote

\* What a tablespace is mounted on changes, the rest stays where it is.
LEMMA StorageStep ==
  ASSUME StorageOK, StorageMoves, attempt = "failed" <=> failedAt > archivedAt
  PROVE  /\ StorageOK' /\ (attempt' = "failed" <=> failedAt' > archivedAt')
         /\ UNCHANGED <<blocked, place, host, mirrored, mode>>
         /\ \A d \in {"data", "wal"} : where'[d] = where[d]
<1> USE DEF StorageOK, disks, archiver
<1>1. ASSUME NEW fs \in Filesystems, FillOrClear(fs)
      PROVE  StorageOK' /\ UNCHANGED <<where, blocked, place, host, mirrored, archiver>>
  <2>1. free' \in [Filesystems \cup {OtherFilesystem} -> 0..Segment]
    BY <1>1 DEF FillOrClear, Segment
  <2> QED BY <1>1, <2>1 DEF FillOrClear
<1>2. ASSUME NEW t \in Tablespaces, Mount(t)
      PROVE  /\ StorageOK' /\ UNCHANGED <<blocked, place, host, mirrored, archiver>>
             /\ \A d \in {"data", "wal"} : where'[d] = where[d]
  <2>1. where' \in [Directories -> Filesystems \cup {Nowhere}]
    BY <1>2 DEF Mount
  <2>2. t \notin {"data", "wal"}
    BY StorageAssumption
  <2>3. \A d \in {"data", "wal"} : where'[d] = where[d]
    BY <1>2, <2>2 DEF Mount, Directories
  <2> QED BY <1>2, <2>1, <2>3 DEF Mount
<1>3. ASSUME NEW t \in Tablespaces, CreateOrDropTablespace(t)
      PROVE  StorageOK' /\ UNCHANGED <<where, blocked, place, host, mirrored, archiver>>
  <2>1. spaces' \subseteq Tablespaces
    BY <1>3 DEF CreateOrDropTablespace
  <2> QED BY <1>3, <2>1 DEF CreateOrDropTablespace
<1>4. CASE Archive(recovering)
  <2> DEFINE now == 1 + IF archivedAt > failedAt THEN archivedAt ELSE failedAt
  <2>1. now \in Nat /\ now > archivedAt /\ now > failedAt
    OBVIOUS
  <2>2. \/ attempt' = "archived" /\ archivedAt' = now /\ UNCHANGED failedAt
        \/ attempt' = "failed" /\ failedAt' = now /\ UNCHANGED archivedAt
    BY <1>4 DEF Archive
  <2>3. UNCHANGED <<disks, mode, command>>
    BY <1>4 DEF Archive
  <2> HIDE DEF now
  <2>4. StorageOK'
    BY <2>1, <2>2, <2>3
  <2>5. attempt' = "failed" <=> failedAt' > archivedAt'
    BY <2>1, <2>2
  <2> QED BY <2>3, <2>4, <2>5
<1>5. CASE ChangeCommand
  BY <1>5 DEF ChangeCommand
<1>6. CASE ResetStatistics
  BY <1>6 DEF ResetStatistics, Never
<1> QED BY <1>1, <1>2, <1>3, <1>4, <1>5, <1>6 DEF StorageMoves

LEMMA UpkeepStep ==
  ASSUME UpkeepOK, UpkeepMoves
  PROVE  UpkeepOK' /\ maxAge' = maxAge
<1> USE DEF UpkeepOK
<1>1. ASSUME NEW k \in Counters, Consume(k)
      PROVE  UpkeepOK' /\ maxAge' = maxAge
  <2>1. age' \in [Databases -> [Counters -> Nat]]
    BY <1>1 DEF Consume
  <2>2. ASSUME NEW d \in Databases, NEW c \in Counters PROVE age'[d][c] <= StopAge[c]
    <3>1. age'[d][c] = IF c = k THEN age[d][c] + 1 ELSE age[d][c]
      BY <1>1 DEF Consume
    <3>2. age[d][k] < StopAge[k] /\ age[d][c] \in Nat /\ StopAge[c] \in Nat
      BY <1>1, UpkeepAssumption DEF Consume
    <3> QED BY <3>1, <3>2
  <2> QED BY <1>1, <2>1, <2>2 DEF Consume
<1>2. ASSUME NEW d \in Databases, NEW k \in Counters, Freeze(d, k)
      PROVE  UpkeepOK' /\ maxAge' = maxAge
  <2>1. PICK younger \in 0..(age[d][k] - 1) : age' = [age EXCEPT ![d][k] = younger]
    BY <1>2 DEF Freeze
  <2>2. younger \in Nat /\ younger <= age[d][k] /\ age[d][k] <= StopAge[k]
    OBVIOUS
  <2>3. age' \in [Databases -> [Counters -> Nat]]
    BY <2>1, <2>2
  <2>4. ASSUME NEW e \in Databases, NEW c \in Counters PROVE age'[e][c] <= StopAge[c]
    <3>1. age'[e][c] = IF e = d /\ c = k THEN younger ELSE age[e][c]
      BY <2>1
    <3>2. StopAge[k] \in Nat /\ age[d][k] \in Nat
      BY UpkeepAssumption
    <3> QED BY <2>2, <3>1, <3>2
  <2> QED BY <1>2, <2>3, <2>4 DEF Freeze
<1>3. CASE SetAutovacuum
  BY <1>3 DEF SetAutovacuum
<1>4. ASSUME NEW t \in Tables, Delete(t)
      PROVE  UpkeepOK' /\ maxAge' = maxAge
  <2>1. dead' \in [Tables -> 0..MaxTuples]
    BY <1>4, UpkeepAssumption DEF Delete
  <2> QED BY <1>4, <2>1 DEF Delete
<1>5. ASSUME NEW t \in Tables, Vacuum(t)
      PROVE  UpkeepOK' /\ maxAge' = maxAge
  <2>1. dead' \in [Tables -> 0..MaxTuples] /\ reltuples' \in [Tables -> Lines]
    BY <1>5, UpkeepAssumption DEF Vacuum
  <2> QED BY <1>5, <2>1 DEF Vacuum
<1>6. ASSUME NEW t \in Tables, AlterTable(t)
      PROVE  UpkeepOK' /\ maxAge' = maxAge
  <2>1. reloptions' \in [Tables -> Reloptions]
    BY <1>6 DEF AlterTable
  <2> QED BY <1>6, <2>1 DEF AlterTable
<1> QED BY <1>1, <1>2, <1>3, <1>4, <1>5, <1>6 DEF UpkeepMoves

-----------------------------------------------------------------------------
(* What the commands do *)

LEMMA StatusPlan ==
  /\ Len(Steps["status"]) = 5
  /\ Steps["status"][1] = "inst.info" /\ Steps["status"][2] = "inst.databases"
  /\ Steps["status"][3] = "inst.downstreams" /\ Steps["status"][4] = "inst.upstream"
  /\ Steps["status"][5] = "inst.disk"
<1>1. Steps["status"] = StatusSteps
  BY DEF Steps
<1> QED BY <1>1 DEF StatusSteps

LEMMA ReplPlan ==
  /\ Len(Steps["repl"]) = 4
  /\ Steps["repl"][1] = "repl.downstreams" /\ Steps["repl"][2] = "repl.sync"
  /\ Steps["repl"][3] = "inst.upstream" /\ Steps["repl"][4] = "repl.replay"
<1>1. Steps["repl"] = ReplSteps
  BY DEF Steps
<1> QED BY <1>1 DEF ReplSteps

LEMMA SlotsPlan == Len(Steps["slots"]) = 1 /\ Steps["slots"][1] = "slot.list"
<1>1. Steps["slots"] = SlotsSteps
  BY DEF Steps
<1> QED BY <1>1 DEF SlotsSteps

LEMMA SpacePlan ==
  /\ Len(Steps["space"]) = 7
  /\ Steps["space"][1] = "space.tablespaces" /\ Steps["space"][2] = "inst.info"
  /\ Steps["space"][3] = "stat data" /\ Steps["space"][4] = "stat wal"
  /\ Steps["space"][5] = "stat tablespaces" /\ Steps["space"][6] = "inst.databases"
  /\ Steps["space"][7] = "space.wal"
<1>1. Steps["space"] = SpaceSteps
  BY DEF Steps
<1>2. Len(SpaceSteps) = 7
  BY DEF SpaceSteps
<1>3. /\ SpaceSteps[1] = "space.tablespaces" /\ SpaceSteps[2] = "inst.info"
      /\ SpaceSteps[3] = "stat data" /\ SpaceSteps[4] = "stat wal"
  BY DEF SpaceSteps
<1>4. /\ SpaceSteps[5] = "stat tablespaces" /\ SpaceSteps[6] = "inst.databases"
      /\ SpaceSteps[7] = "space.wal"
  BY DEF SpaceSteps
<1> QED BY <1>1, <1>2, <1>3, <1>4

LEMMA ArchivePlan ==
  /\ Len(Steps["archive"]) = 2
  /\ Steps["archive"][1] = "archive.status" /\ Steps["archive"][2] = "archive.ready"
<1>1. Steps["archive"] = ArchiveSteps
  BY DEF Steps
<1> QED BY <1>1 DEF ArchiveSteps

LEMMA FreezePlan ==
  /\ Len(Steps["freeze"]) = 3
  /\ Steps["freeze"][1] = "freeze.databases" /\ Steps["freeze"][2] = "freeze.tables"
  /\ Steps["freeze"][3] = "freeze.limits"
<1>1. Steps["freeze"] = FreezeSteps
  BY DEF Steps
<1> QED BY <1>1 DEF FreezeSteps

LEMMA VacuumPlan ==
  /\ Len(Steps["vacuum"]) = 4
  /\ Steps["vacuum"][1] = "track_counts" /\ Steps["vacuum"][2] = "vacuum.tables"
  /\ Steps["vacuum"][3] = "vacuum.progress" /\ Steps["vacuum"][4] = "vacuum.settings"
<1>1. Steps["vacuum"] = VacuumSteps
  BY DEF Steps
<1> QED BY <1>1 DEF VacuumSteps

LEMMA CommandsAre ==
  /\ Commands = {"status", "repl", "slots", "space", "archive", "freeze", "vacuum"}
  /\ \A c \in Commands : Len(Steps[c]) \in Nat /\ Len(Steps[c]) > 0
<1>1. Commands = {"status", "repl", "slots", "space", "archive", "freeze", "vacuum"}
  BY DEF Commands, Steps
<1>2. \A c \in Commands : Len(Steps[c]) \in Nat /\ Len(Steps[c]) > 0
  <2>1. Len(Steps["status"]) \in Nat \ {0} /\ Len(Steps["repl"]) \in Nat \ {0}
    BY StatusPlan, ReplPlan
  <2>2. Len(Steps["slots"]) \in Nat \ {0} /\ Len(Steps["space"]) \in Nat \ {0}
    <3>1. Len(Steps["slots"]) = 1 /\ Len(Steps["space"]) = 7
      BY SlotsPlan, SpacePlan
    <3> QED BY <3>1
  <2>3. /\ Len(Steps["archive"]) \in Nat \ {0} /\ Len(Steps["freeze"]) \in Nat \ {0}
        /\ Len(Steps["vacuum"]) \in Nat \ {0}
    BY ArchivePlan, FreezePlan, VacuumPlan
  <2> QED BY <1>1, <2>1, <2>2, <2>3
<1> QED BY <1>1, <1>2

LEMMA PlacesAre ==
  ASSUME cmd \in Commands
  PROVE  /\ Reporting \in Nat /\ Done = Reporting + 1 /\ Reporting > 1
         /\ Looking <=> pos \in 1..(Reporting - 1)
BY CommandsAre DEF Reporting, Done, Looking

\* What a query or a statfs may come back with.
LEMMA AnswersAre ==
  /\ \A found : Ok(found).status = "ok" /\ Ok(found).rows = found
  /\ \A st : Missing(st).status = st /\ Missing(st).rows = {}
  /\ Failures = {Missing("error")}
  /\ NotRead.status = "none" /\ NotRead.rows = {}
BY DEF Ok, Missing, Failures, NotRead, Classify

LEMMA QueriesAre ==
  /\ Query("inst.info") = InstInfo
  /\ Query("inst.databases") = InstDatabases
  /\ Query("inst.downstreams") = InstDownstreams
  /\ Query("inst.upstream") = InstUpstream(role)
  /\ Query("repl.downstreams") = ReplDownstreams
  /\ Query("repl.sync") = ReplSync(role)
  /\ Query("repl.replay") = ReplReplay(role)
  /\ Query("slot.list") = SlotList
  /\ Query("space.tablespaces") = Failures \cup {Ok(rows) : rows \in SpaceTablespaces}
  /\ Query("space.wal") = Failures \cup {Ok(SpaceWAL)}
  /\ Query("archive.status") = Failures \cup {Ok(ArchiveStatus)}
  /\ \A p \in {"archive.ready", "freeze.tables"} : Query(p) = Failures \cup {Ok({})}
  /\ Query("freeze.databases") = FreezeDatabases
  /\ Query("freeze.limits") = FreezeLimits
  /\ Query("track_counts") = TrackCounts(role)
  /\ Query("vacuum.tables") = VacuumTables(saw["vacuum.tables"])
  /\ Query("vacuum.progress") = VacuumProgress(role)
  /\ Query("vacuum.settings") = VacuumSettings
BY DEF Query

\* Which step puts what where.
Reads(p, got) == saw' = [saw EXCEPT ![p] = got]
LEMMA ProbesAre ==
  ASSUME Probe, NEW p, p = Steps[cmd][pos]
  PROVE  /\ Looking /\ pos' = pos + 1 /\ UNCHANGED <<instance, cmd, role, exit, held, touched, glimpses>>
         /\ p \notin Stats => \E got \in Query(p) : Reads(Into(p), got)
         /\ p \in Stats => Reads(Into(p), Stat(p))
BY DEF Probe, Reads, history

LEMMA IntoIs ==
  /\ \A p \in Results : p # "inst.disk" => p \notin Stats /\ Into(p) = p
  /\ Into("inst.disk") = "inst.disk" /\ Into("track_counts") = "vacuum.tables"
  /\ \A p \in {"stat data", "stat wal", "stat tablespaces"} : Into(p) = "space.disk"
  /\ "track_counts" \notin Stats /\ Stats = {"inst.disk", "stat data", "stat wal", "stat tablespaces"}
BY DEF Into, Stats, Results

LEMMA StatsAre ==
  /\ Stat("inst.disk") = StatData(saw["inst.info"])
  /\ Stat("stat data") = StatData(saw["inst.info"])
  /\ Stat("stat wal") = StatWAL(saw["space.disk"])
  /\ Stat("stat tablespaces") = StatTablespaces(saw["space.disk"], Located(saw["space.tablespaces"]))
BY DEF Stat

Known == Statuses \cup {"none"}

LEMMA QueriesTyped ==
  ASSUME saw["vacuum.tables"].status \in Known, NEW p, NEW got \in Query(p),
         p \in (Results \ {"inst.disk", "space.disk"}) \cup {"track_counts"}
  PROVE  got.status \in Known
<1> USE DEF Known, Statuses, Ok, Missing, Failures, NotRead, Classify
<1>1. CASE p \in {"inst.info", "inst.databases", "inst.downstreams", "inst.upstream"}
  BY <1>1, QueriesAre DEF InstInfo, InstDatabases, InstDownstreams, InstUpstream
<1>2. CASE p \in {"repl.downstreams", "repl.sync", "repl.replay", "slot.list"}
  BY <1>2, QueriesAre DEF ReplDownstreams, ReplSync, ReplReplay, SlotList
<1>3. CASE p \in {"space.tablespaces", "space.wal", "archive.status", "archive.ready"}
  BY <1>3, QueriesAre
<1>4. CASE p \in {"freeze.databases", "freeze.tables", "freeze.limits"}
  BY <1>4, QueriesAre DEF FreezeDatabases, FreezeLimits
<1>5. CASE p \in {"track_counts", "vacuum.tables", "vacuum.progress", "vacuum.settings"}
  BY <1>5, QueriesAre DEF TrackCounts, VacuumTables, VacuumProgress, VacuumSettings
<1> QED BY <1>1, <1>2, <1>3, <1>4, <1>5 DEF Results

LEMMA StatsTyped ==
  ASSUME \A p \in Results : saw[p].status \in Known, NEW p \in Stats
  PROVE  Stat(p).status \in Known
<1> USE DEF Known, Statuses, Ok, Missing
<1>1. saw["space.disk"].status \in Known
  BY DEF Results
<1>2. \A info : StatData(info).status \in Known
  BY DEF StatData
<1>3. StatWAL(saw["space.disk"]).status \in Known
  <2> DEFINE disk == saw["space.disk"]
  <2>1. disk.status = "ok" => [disk EXCEPT !.rows = @ \cup Statfs("wal")].status \in Known
    BY DEF StatWAL
  <2> QED BY <1>1, <2>1 DEF StatWAL
<1>4. \A listed : StatTablespaces(saw["space.disk"], listed).status \in Known
  BY <1>1 DEF StatTablespaces
<1>5. p \in {"inst.disk", "stat data", "stat wal", "stat tablespaces"}
  BY DEF Stats
<1> HIDE DEF Known
<1> QED BY <1>2, <1>3, <1>4, <1>5, StatsAre

LEMMA StepsAre ==
  ASSUME cmd \in Commands, Looking
  PROVE  \/ Steps[cmd][pos] \in (Results \ {"inst.disk", "space.disk"}) \cup {"track_counts"}
         \/ Steps[cmd][pos] \in Stats
<1>1. pos \in 1..Len(Steps[cmd])
  BY DEF Looking
<1>2. CASE cmd = "status"
  <2>1. pos \in {1, 2, 3, 4, 5}
    BY <1>1, <1>2, StatusPlan
  <2> QED BY <1>2, <2>1, StatusPlan DEF Results, Stats
<1>3. CASE cmd = "repl"
  <2>1. pos \in {1, 2, 3, 4}
    BY <1>1, <1>3, ReplPlan
  <2> QED BY <1>3, <2>1, ReplPlan DEF Results
<1>4. CASE cmd = "slots"
  BY <1>1, <1>4, SlotsPlan DEF Results
<1>5. CASE cmd = "space"
  <2>1. pos \in {1, 2, 3, 4, 5, 6, 7}
    <3>1. Len(Steps[cmd]) = 7
      BY <1>5, SpacePlan
    <3> QED BY <1>1, <3>1
  <2> QED BY <1>5, <2>1, SpacePlan DEF Results, Stats
<1>6. CASE cmd = "archive"
  BY <1>1, <1>6, ArchivePlan DEF Results
<1>7. CASE cmd = "freeze"
  <2>1. pos \in {1, 2, 3}
    BY <1>1, <1>7, FreezePlan
  <2> QED BY <1>7, <2>1, FreezePlan DEF Results
<1>8. CASE cmd = "vacuum"
  <2>1. pos \in {1, 2, 3, 4}
    BY <1>1, <1>8, VacuumPlan
  <2> QED BY <1>8, <2>1, VacuumPlan DEF Results
<1> QED BY <1>2, <1>3, <1>4, <1>5, <1>6, <1>7, <1>8, CommandsAre

-----------------------------------------------------------------------------
(* What all commands have in common *)

\* What no step of the instance does.
Moved ==
  /\ recovering' => recovering
  /\ ~recovering' => receiver' = receiver /\ (recovering => receiver = "none")
  /\ UNCHANGED <<maxAge, blocked, place, host, mirrored, mode>>
  /\ \A d \in {"data", "wal"} : where'[d] = where[d]

Times == attempt = "failed" <=> failedAt > archivedAt

LEMMA ServerStays ==
  /\ UNCHANGED replication => /\ (ReplicationOK => ReplicationOK')
                              /\ UNCHANGED <<recovering, receiver>>
  /\ UNCHANGED storage =>
       /\ (StorageOK => StorageOK') /\ (Times => Times')
       /\ UNCHANGED <<blocked, place, host, mirrored, mode>>
       /\ \A d \in {"data", "wal"} : where'[d] = where[d]
  /\ UNCHANGED upkeep => (UpkeepOK => UpkeepOK') /\ maxAge' = maxAge
<1>1. ASSUME UNCHANGED replication
      PROVE  (ReplicationOK => ReplicationOK') /\ UNCHANGED <<recovering, receiver>>
  BY <1>1 DEF replication, ReplicationOK
<1>2. ASSUME UNCHANGED storage
      PROVE  /\ (StorageOK => StorageOK') /\ (Times => Times')
             /\ UNCHANGED <<blocked, place, host, mirrored, mode, where>>
  BY <1>2 DEF storage, StorageOK, Times
<1>3. ASSUME UNCHANGED upkeep
      PROVE  (UpkeepOK => UpkeepOK') /\ maxAge' = maxAge
  BY <1>3 DEF upkeep, UpkeepOK
<1> QED BY <1>1, <1>2, <1>3

LEMMA ServerMoves ==
  ASSUME ServerOK, Times, [Next]_vars
  PROVE  ServerOK' /\ Times' /\ Moved
<1> USE DEF ServerOK, Moved
<1>1. CASE Instance
  <2>1. CASE (ReplicationMoves \/ Promote) /\ UNCHANGED <<storage, upkeep>>
    BY <2>1, ReplicationStep, ServerStays
  <2>2. CASE StorageMoves /\ UNCHANGED <<replication, upkeep>>
    <3>1. attempt = "failed" <=> failedAt > archivedAt
      BY DEF Times
    <3>2. /\ StorageOK' /\ Times' /\ UNCHANGED <<blocked, place, host, mirrored, mode>>
          /\ \A d \in {"data", "wal"} : where'[d] = where[d]
      BY <2>2, <3>1, StorageStep DEF Times
    <3> QED BY <2>2, <3>2, ServerStays
  <2>3. CASE UpkeepMoves /\ UNCHANGED <<replication, storage>>
    BY <2>3, UpkeepStep, ServerStays
  <2> QED BY <1>1, <2>1, <2>2, <2>3 DEF Instance
<1>2. CASE UNCHANGED instance
  BY <1>2, ServerStays DEF instance
<1> QED BY <1>1, <1>2 DEF Next, Identify, Probe, Report, vars

\* What is wrong is a matter of the instance and of the command.
LEMMA TroublesStill == UNCHANGED <<instance, cmd>> => Troubles' = Troubles /\ Glimpse' = Glimpse
<1> SUFFICES ASSUME UNCHANGED <<instance, cmd>> PROVE Troubles' = Troubles /\ Glimpse' = Glimpse
  OBVIOUS
<1>1. UNCHANGED <<replication, storage, upkeep>>
  BY DEF instance
<1>2. UNCHANGED <<Full, NoUpstream, ReplayPaused, SyncShort, Inactive>>
  BY <1>1 DEF replication, Full, NoUpstream, Receiving, ReplayPaused, SyncShort, Streaming,
              WaitsFor, Inactive
<1>3. UNCHANGED <<setting, recovering, SwitchedOff>> /\ ArchiveFailing(recovering)' = ArchiveFailing(recovering)
  BY <1>1 DEF replication, storage, upkeep, SwitchedOff, ArchiveFailing, Archiving
<1>4. \A x : /\ DiskFull(x)' = DiskFull(x)
             /\ Stopped(x)' = Stopped(x) /\ Due(x)' = Due(x)
             /\ Neglected(x)' = Neglected(x)
  BY <1>1 DEF storage, upkeep, DiskFull, Stopped, Due, Old, Neglected, TableRows
<1>5. \A f : IsTrue(f)' = IsTrue(f)
  BY <1>2, <1>3, <1>4 DEF IsTrue
<1>6. UNCHANGED <<Synchronous, WaitsFor, TableRows, defaults>>
  BY <1>1 DEF replication, upkeep, Synchronous, Streaming, WaitsFor, TableRows
<1> QED BY <1>5, <1>6 DEF Troubles, Glimpse

LEMMA TroublesTyped == Troubles \subseteq Findings /\ Troubles' \subseteq Findings
<1>1. Troubles \subseteq Findings
  BY DEF Troubles
<1>2. Findings' = Findings
  BY DEF Findings, Finding
<1> QED BY <1>2 DEF Troubles

\* The parts of a step that matter to the invariants below: nothing is read,
\* the run begins, or a probe reads.
Quiet ==
  /\ pos # 0 /\ pos' # 0 /\ UNCHANGED <<cmd, role, saw>>
  /\ held' \subseteq held /\ touched \subseteq touched' /\ glimpses \subseteq glimpses'
  /\ pos' = pos \/ (pos = Reporting /\ pos' = Done)
Fresh ==
  /\ pos = 0 /\ pos' \in {0, 1} /\ UNCHANGED <<instance, cmd, saw>>
  /\ Identify \/ UNCHANGED vars

LEMMA StepKinds ==
  ASSUME cmd \in Commands, pos \in Nat, [Next]_vars
  PROVE  cmd' = cmd /\ (Quiet \/ Fresh \/ (Probe /\ pos # 0 /\ pos' # 0))
<1>1. CASE Instance
  <2>1. pos \in 1..(Reporting - 1)
    BY <1>1, PlacesAre DEF Instance
  <2> QED BY <1>1, <2>1 DEF Instance, Remember, Quiet, program
<1>2. CASE Identify
  BY <1>2 DEF Identify, Fresh
<1>3. CASE Probe
  <2>1. pos \in 1..(Reporting - 1) /\ pos' = pos + 1 /\ cmd' = cmd /\ Reporting \in Nat
    BY <1>3, PlacesAre DEF Probe
  <2> QED BY <1>3, <2>1
<1>4. CASE Report
  <2>1. pos # 0 /\ Done # 0
    BY <1>4, PlacesAre DEF Report
  <2> QED BY <1>4, <2>1 DEF Report, Quiet, history
<1>5. CASE UNCHANGED vars
  BY <1>5 DEF vars, program, history, Quiet, Fresh
<1> QED BY <1>1, <1>2, <1>3, <1>4, <1>5 DEF Next

ProgramOK ==
  /\ cmd \in Commands /\ pos \in 0..Done /\ role \in Roles \cup {"none"}
  /\ DOMAIN saw = Results /\ \A p \in Results : saw[p].status \in Known
  /\ exit \in 0..3 \cup {Running}
  /\ moves \in 0..MaxMoves /\ held \subseteq touched /\ touched \subseteq Findings

LEMMA TypesAre == TypeOK <=> ServerOK /\ ProgramOK
BY DEF TypeOK, ServerOK, ProgramOK, Known

LEMMA CommonInit == Init => TypeOK /\ Stages /\ Noticed /\ Times
<1> SUFFICES ASSUME Init PROVE TypeOK /\ Stages /\ Noticed /\ Times
  OBVIOUS
<1>1. /\ cmd \in Commands /\ pos = 0 /\ role = "none" /\ exit = Running /\ moves = 0
      /\ saw = [p \in Results |-> NotRead] /\ held = {} /\ touched = {} /\ glimpses = {}
  BY DEF Init
<1>2. Done \in Nat /\ Done # 0
  BY <1>1, PlacesAre
<1>3. ProgramOK
  <2>1. NotRead.status \in Known
    BY AnswersAre DEF Known
  <2> QED BY <1>1, <1>2, <2>1, NodeAssumption DEF ProgramOK
<1>4. TypeOK
  BY <1>3, InitServer, TypesAre
<1> QED BY <1>1, <1>2, <1>4, InitTimes DEF Stages, Noticed, Times

LEMMA CommonNext ==
  ASSUME TypeOK, Stages, Noticed, Times, [Next]_vars
  PROVE  TypeOK' /\ Stages' /\ Noticed'
<1>1. /\ cmd \in Commands /\ Reporting \in Nat /\ Done = Reporting + 1 /\ Reporting > 1
      /\ (Looking <=> pos \in 1..(Reporting - 1)) /\ pos \in 0..Done
  BY PlacesAre, TypesAre DEF ProgramOK
<1>2. ServerOK' /\ cmd' = cmd /\ Done' = Done /\ Reporting' = Reporting
  BY <1>1, ServerMoves, StepKinds, TypesAre DEF Done, Reporting
<1>3. Findings' = Findings /\ Troubles \subseteq Findings /\ Troubles' \subseteq Findings
  BY TroublesTyped DEF Findings, Finding
<1>4. ProgramOK
  BY TypesAre
<1>5. UNCHANGED <<cmd, saw, role>> => Judgement' = Judgement
  BY DEF Judgement
<1>6. ProgramOK' => TypeOK'
  <2>1. (TypeOK <=> ServerOK /\ ProgramOK)'
    BY TypesAre, PTL
  <2> QED BY <1>2, <2>1
<1>7. CASE Instance
  <2>1. /\ UNCHANGED <<pos, role, saw, exit>> /\ Remember /\ pos \in 1..(Reporting - 1)
        /\ moves < MaxMoves /\ moves' = moves + 1
    BY <1>1, <1>7 DEF Instance, program
  <2>2. /\ held' \subseteq Troubles' /\ Troubles' \subseteq touched' /\ Glimpse' \subseteq glimpses'
        /\ held' \subseteq touched' /\ touched' \subseteq Findings
    BY <1>3, <1>4, <2>1 DEF Remember, ProgramOK
  <2>3. moves' \in 0..MaxMoves
    BY <1>4, <2>1, NodeAssumption DEF ProgramOK
  <2>4. pos # 0 /\ pos # Done
    BY <1>1, <2>1
  <2>5. ProgramOK'
    BY <1>2, <1>3, <1>4, <2>1, <2>2, <2>3 DEF ProgramOK
  <2>6. Stages'
    BY <1>2, <2>1, <2>4 DEF Stages
  <2> QED BY <1>6, <2>2, <2>5, <2>6 DEF Noticed
<1>8. CASE Identify
  <2>1. /\ pos = 0 /\ pos' = 1 /\ role' \in Roles /\ held' = Troubles /\ touched' = Troubles
        /\ glimpses' = Glimpse /\ UNCHANGED <<instance, cmd, saw, exit, moves>>
    BY <1>8 DEF Identify, Roles, instance
  <2>2. Troubles' = Troubles /\ Glimpse' = Glimpse
    BY <2>1, TroublesStill
  <2>3. pos' \in 0..Done /\ pos' # Done /\ pos # Done
    BY <1>1, <2>1
  <2>4. ProgramOK'
    BY <1>2, <1>3, <1>4, <2>1, <2>2, <2>3 DEF ProgramOK
  <2>5. Stages'
    BY <1>2, <2>1, <2>3 DEF Stages
  <2> QED BY <1>6, <2>1, <2>2, <2>4, <2>5 DEF Noticed
<1>9. CASE Probe
  <2> DEFINE p == Steps[cmd][pos]
  <2>1. /\ Looking /\ pos' = pos + 1 /\ UNCHANGED <<instance, role, exit, held, touched, glimpses, moves>>
        /\ p \notin Stats => \E got \in Query(p) : Reads(Into(p), got)
        /\ p \in Stats => Reads(Into(p), Stat(p))
    BY <1>9, ProbesAre DEF instance
  <2>2. \/ p \in (Results \ {"inst.disk", "space.disk"}) \cup {"track_counts"}
        \/ p \in Stats
    BY <1>1, <2>1, StepsAre
  <2>3. Into(p) \in Results
    BY <2>2, IntoIs DEF Results
  <2>4. \E got : Reads(Into(p), got) /\ got.status \in Known
    <3>1. CASE p \in Stats
      BY <1>4, <2>1, <3>1, StatsTyped DEF ProgramOK
    <3>2. CASE p \notin Stats
      <4>1. saw["vacuum.tables"].status \in Known
        BY <1>4 DEF ProgramOK, Results
      <4>2. PICK got \in Query(p) : Reads(Into(p), got)
        BY <2>1, <3>2
      <4>3. got.status \in Known
        BY <2>2, <3>2, <4>1, QueriesTyped
      <4> QED BY <4>2, <4>3
    <3> QED BY <3>1, <3>2
  <2> HIDE DEF p
  <2>5. DOMAIN saw' = Results /\ \A q \in Results : saw'[q].status \in Known
    BY <1>4, <2>3, <2>4 DEF Reads, ProgramOK
  <2>6. Troubles' = Troubles /\ Glimpse' = Glimpse
    BY <1>2, <2>1, TroublesStill
  <2>7. pos # 0 /\ pos' # 0 /\ pos # Done /\ pos' # Done /\ pos' \in 0..Done
    BY <1>1, <2>1
  <2>8. ProgramOK'
    BY <1>2, <1>3, <1>4, <2>1, <2>5, <2>7 DEF ProgramOK
  <2>9. Stages'
    BY <1>2, <2>1, <2>7 DEF Stages
  <2> QED BY <1>6, <2>1, <2>6, <2>7, <2>8, <2>9 DEF Noticed
<1>10. CASE Report
  <2>1. /\ pos = Reporting /\ pos' = Done /\ exit' = ExitCode(Judgement.verdict)
        /\ UNCHANGED <<instance, role, saw, held, touched, glimpses, moves>>
    BY <1>10 DEF Report, history, instance
  <2>2. Troubles' = Troubles /\ Glimpse' = Glimpse
    BY <1>2, <2>1, TroublesStill
  <2>3. Judgement' = Judgement
    BY <1>2, <1>5, <2>1
  <2>4. exit' \in 0..3 /\ exit' # Running
    BY <2>1 DEF ExitCode, Running
  <2>5. pos # 0 /\ pos' # 0 /\ pos' \in 0..Done
    BY <1>1, <2>1
  <2>6. ProgramOK'
    BY <1>2, <1>3, <1>4, <2>1, <2>4, <2>5 DEF ProgramOK
  <2>7. Stages'
    BY <1>2, <2>1, <2>3, <2>4, <2>5 DEF Stages
  <2> QED BY <1>6, <2>1, <2>2, <2>5, <2>6, <2>7 DEF Noticed
<1>11. CASE UNCHANGED vars
  <2>1. UNCHANGED <<instance, pos, role, saw, exit, held, touched, glimpses, moves>>
    BY <1>11 DEF vars, program, history, instance
  <2>2. Troubles' = Troubles /\ Glimpse' = Glimpse
    BY <1>2, <2>1, TroublesStill
  <2>3. Judgement' = Judgement
    BY <1>2, <1>5, <2>1
  <2>4. ProgramOK'
    BY <1>2, <1>3, <1>4, <2>1 DEF ProgramOK
  <2>5. Stages'
    BY <1>2, <2>1, <2>3 DEF Stages
  <2> QED BY <1>6, <2>1, <2>2, <2>4, <2>5 DEF Noticed
<1> QED BY <1>7, <1>8, <1>9, <1>10, <1>11 DEF Next

-----------------------------------------------------------------------------
(* What is wrong, command by command *)

LEMMA FindingIs ==
  \A id, level, of, f : f \in Finding(id, level, of) <=> \E x \in of : f = Trouble(id, level, x)
<1> SUFFICES ASSUME NEW id, NEW level, NEW of, NEW f
             PROVE  f \in Finding(id, level, of) <=> \E x \in of : f = Trouble(id, level, x)
  OBVIOUS
<1>1. ASSUME f \in Finding(id, level, of) PROVE \E x \in of : f = Trouble(id, level, x)
  BY <1>1 DEF Finding, Trouble
<1>2. ASSUME NEW x \in of PROVE Trouble(id, level, x) \in Finding(id, level, of)
  BY DEF Finding, Trouble
<1> QED BY <1>1, <1>2

\* The troubles a command has are those of the findings that it reports.
LEMMA TroubleIs ==
  ASSUME NEW f
  PROVE  f \in Troubles <=> f \in Findings /\ f.id \in ReportedBy[cmd] /\ IsTrue(f)
BY DEF Troubles

LEMMA FindingsTell ==
  ASSUME NEW f \in Findings
  PROVE  \/ f = Trouble("inst.connections", "FAIL", Nowhere)
         \/ f = Trouble("inst.upstream", "WARN", Nowhere)
         \/ f = Trouble("repl.replay_paused", "WARN", Nowhere)
         \/ \E n \in {set.num : set \in Settings} : f = Trouble("repl.sync_short", "WARN", n)
         \/ \E s \in Standbys : f = Trouble("slot.inactive", "WARN", s)
         \/ \E fs \in Filesystems : f = Trouble("space.disk_full", "FAIL", fs)
         \/ f = Trouble("archive.failing", "WARN", Nowhere)
         \/ \E d \in Databases : f = Trouble("freeze.database_age", "FAIL", d)
         \/ \E d \in Databases : f = Trouble("freeze.database_age", "WARN", d)
         \/ f = Trouble("vacuum.disabled", "WARN", Nowhere)
         \/ \E t \in Tables : f = Trouble("vacuum.table_disabled", "WARN", t)
BY FindingIs DEF Findings

LEMMA TellsFindings ==
  /\ Trouble("inst.connections", "FAIL", Nowhere) \in Findings
  /\ Trouble("inst.upstream", "WARN", Nowhere) \in Findings
  /\ Trouble("repl.replay_paused", "WARN", Nowhere) \in Findings
  /\ \A n \in {set.num : set \in Settings} : Trouble("repl.sync_short", "WARN", n) \in Findings
  /\ \A s \in Standbys : Trouble("slot.inactive", "WARN", s) \in Findings
  /\ \A fs \in Filesystems : Trouble("space.disk_full", "FAIL", fs) \in Findings
  /\ Trouble("archive.failing", "WARN", Nowhere) \in Findings
  /\ \A d \in Databases : /\ Trouble("freeze.database_age", "FAIL", d) \in Findings
                          /\ Trouble("freeze.database_age", "WARN", d) \in Findings
  /\ Trouble("vacuum.disabled", "WARN", Nowhere) \in Findings
  /\ \A t \in Tables : Trouble("vacuum.table_disabled", "WARN", t) \in Findings
BY FindingIs DEF Findings

LEMMA TroubleParts ==
  \A id, level, of : /\ Trouble(id, level, of).id = id /\ Trouble(id, level, of).level = level
                     /\ Trouble(id, level, of).of = of
BY DEF Trouble

LEMMA TruthIs ==
  /\ IsTrue(Trouble("inst.connections", "FAIL", Nowhere)) <=> Full
  /\ IsTrue(Trouble("inst.upstream", "WARN", Nowhere)) <=> NoUpstream
  /\ IsTrue(Trouble("repl.replay_paused", "WARN", Nowhere)) <=> ReplayPaused
  /\ \A n : IsTrue(Trouble("repl.sync_short", "WARN", n)) <=> SyncShort /\ n = setting.num
  /\ \A s : IsTrue(Trouble("slot.inactive", "WARN", s)) <=> s \in Inactive
  /\ \A fs : IsTrue(Trouble("space.disk_full", "FAIL", fs)) <=> DiskFull(fs)
  /\ IsTrue(Trouble("archive.failing", "WARN", Nowhere)) <=> ArchiveFailing(recovering)
  /\ \A d : /\ IsTrue(Trouble("freeze.database_age", "FAIL", d)) <=> Stopped(d)
            /\ IsTrue(Trouble("freeze.database_age", "WARN", d)) <=> Due(d)
  /\ IsTrue(Trouble("vacuum.disabled", "WARN", Nowhere)) <=> ~recovering /\ SwitchedOff
  /\ \A t : IsTrue(Trouble("vacuum.table_disabled", "WARN", t)) <=> ~recovering /\ Neglected(t)
<1>1. ASSUME NEW f PROVE f.id = "inst.connections" => (IsTrue(f) <=> Full)
  BY DEF IsTrue
<1>2. ASSUME NEW f PROVE f.id = "inst.upstream" => (IsTrue(f) <=> NoUpstream)
  BY DEF IsTrue
<1>3. ASSUME NEW f PROVE f.id = "repl.replay_paused" => (IsTrue(f) <=> ReplayPaused)
  BY DEF IsTrue
<1>4. ASSUME NEW f PROVE f.id = "repl.sync_short" => (IsTrue(f) <=> SyncShort /\ f.of = setting.num)
  BY DEF IsTrue
<1>5. ASSUME NEW f PROVE f.id = "slot.inactive" => (IsTrue(f) <=> f.of \in Inactive)
  BY DEF IsTrue
<1>6. ASSUME NEW f PROVE f.id = "space.disk_full" => (IsTrue(f) <=> DiskFull(f.of))
  BY DEF IsTrue
<1>7. ASSUME NEW f PROVE f.id = "archive.failing" => (IsTrue(f) <=> ArchiveFailing(recovering))
  BY DEF IsTrue
<1>8. ASSUME NEW f
      PROVE  f.id = "freeze.database_age" =>
               (IsTrue(f) <=> IF f.level = "FAIL" THEN Stopped(f.of) ELSE Due(f.of))
  BY DEF IsTrue
<1>9. ASSUME NEW f PROVE f.id = "vacuum.disabled" => (IsTrue(f) <=> ~recovering /\ SwitchedOff)
  BY DEF IsTrue
<1>10. ASSUME NEW f
       PROVE  f.id = "vacuum.table_disabled" => (IsTrue(f) <=> ~recovering /\ Neglected(f.of))
  BY DEF IsTrue
<1>11. /\ IsTrue(Trouble("inst.connections", "FAIL", Nowhere)) <=> Full
       /\ IsTrue(Trouble("inst.upstream", "WARN", Nowhere)) <=> NoUpstream
       /\ IsTrue(Trouble("repl.replay_paused", "WARN", Nowhere)) <=> ReplayPaused
       /\ \A n : IsTrue(Trouble("repl.sync_short", "WARN", n)) <=> SyncShort /\ n = setting.num
  BY TroubleParts, <1>1, <1>2, <1>3, <1>4
<1>12. /\ \A s : IsTrue(Trouble("slot.inactive", "WARN", s)) <=> s \in Inactive
       /\ \A fs : IsTrue(Trouble("space.disk_full", "FAIL", fs)) <=> DiskFull(fs)
       /\ IsTrue(Trouble("archive.failing", "WARN", Nowhere)) <=> ArchiveFailing(recovering)
  BY TroubleParts, <1>5, <1>6, <1>7
<1>13. /\ \A d : /\ IsTrue(Trouble("freeze.database_age", "FAIL", d)) <=> Stopped(d)
                 /\ IsTrue(Trouble("freeze.database_age", "WARN", d)) <=> Due(d)
       /\ IsTrue(Trouble("vacuum.disabled", "WARN", Nowhere)) <=> ~recovering /\ SwitchedOff
       /\ \A t : IsTrue(Trouble("vacuum.table_disabled", "WARN", t)) <=> ~recovering /\ Neglected(t)
  BY TroubleParts, <1>8, <1>9, <1>10
<1> QED BY <1>11, <1>12, <1>13

LEMMA StatusTroubles ==
  ASSUME cmd = "status"
  PROVE  /\ Troubles \subseteq {Trouble("inst.connections", "FAIL", Nowhere),
                                Trouble("inst.upstream", "WARN", Nowhere)}
         /\ Trouble("inst.connections", "FAIL", Nowhere) \in Troubles <=> Full
         /\ Trouble("inst.upstream", "WARN", Nowhere) \in Troubles <=> NoUpstream
<1>1. ReportedBy[cmd] = {"inst.connections", "inst.upstream"}
  BY DEF ReportedBy
<1> QED BY <1>1, TroubleIs, FindingsTell, TellsFindings, TroubleParts, TruthIs

LEMMA ReplTroubles ==
  ASSUME cmd = "repl", setting \in Settings
  PROVE  /\ \A f \in Troubles :
              \/ f \in {Trouble("inst.upstream", "WARN", Nowhere), Trouble("repl.replay_paused", "WARN", Nowhere)}
              \/ \E n : f = Trouble("repl.sync_short", "WARN", n)
         /\ Trouble("inst.upstream", "WARN", Nowhere) \in Troubles <=> NoUpstream
         /\ Trouble("repl.replay_paused", "WARN", Nowhere) \in Troubles <=> ReplayPaused
         /\ \A n : Trouble("repl.sync_short", "WARN", n) \in Troubles <=> SyncShort /\ n = setting.num
<1>1. ReportedBy[cmd] = {"inst.upstream", "repl.replay_paused", "repl.sync_short"}
  BY DEF ReportedBy
<1>2. setting.num \in {set.num : set \in Settings}
  OBVIOUS
<1> QED BY <1>1, <1>2, TroubleIs, FindingsTell, TellsFindings, TroubleParts, TruthIs

LEMMA SlotsTroubles ==
  ASSUME cmd = "slots", slots \subseteq Standbys
  PROVE  /\ \A f \in Troubles : \E s \in Inactive : f = Trouble("slot.inactive", "WARN", s)
         /\ \A s \in Inactive : Trouble("slot.inactive", "WARN", s) \in Troubles
<1>1. ReportedBy[cmd] = {"slot.inactive"}
  BY DEF ReportedBy
<1>2. Inactive \subseteq Standbys
  BY DEF Inactive
<1> QED BY <1>1, <1>2, TroubleIs, FindingsTell, TellsFindings, TroubleParts, TruthIs

LEMMA SpaceTroubles ==
  ASSUME cmd = "space", StorageOK
  PROVE  /\ \A f \in Troubles : \E fs \in Filesystems :
              f = Trouble("space.disk_full", "FAIL", fs) /\ DiskFull(fs)
         /\ \A fs \in Filesystems : DiskFull(fs) => Trouble("space.disk_full", "FAIL", fs) \in Troubles
<1>1. ReportedBy[cmd] = {"space.disk_full"}
  BY DEF ReportedBy
<1> QED BY <1>1, TroubleIs, FindingsTell, TellsFindings, TroubleParts, TruthIs

LEMMA ArchiveTroubles ==
  ASSUME cmd = "archive"
  PROVE  /\ Troubles \subseteq {Trouble("archive.failing", "WARN", Nowhere)}
         /\ Trouble("archive.failing", "WARN", Nowhere) \in Troubles <=> ArchiveFailing(recovering)
<1>1. ReportedBy[cmd] = {"archive.failing"}
  BY DEF ReportedBy
<1> QED BY <1>1, TroubleIs, FindingsTell, TellsFindings, TroubleParts, TruthIs

LEMMA FreezeTroubles ==
  ASSUME cmd = "freeze"
  PROVE  /\ \A f \in Troubles : \E d \in Databases :
              \/ f = Trouble("freeze.database_age", "FAIL", d) /\ Stopped(d)
              \/ f = Trouble("freeze.database_age", "WARN", d) /\ Due(d)
         /\ \A d \in Databases :
              /\ Stopped(d) => Trouble("freeze.database_age", "FAIL", d) \in Troubles
              /\ Due(d) => Trouble("freeze.database_age", "WARN", d) \in Troubles
<1>1. ReportedBy[cmd] = {"freeze.database_age"}
  BY DEF ReportedBy
<1> QED BY <1>1, TroubleIs, FindingsTell, TellsFindings, TroubleParts, TruthIs

LEMMA VacuumTroubles ==
  ASSUME cmd = "vacuum"
  PROVE  /\ \A f \in Troubles :
              /\ ~recovering
              /\ \/ f = Trouble("vacuum.disabled", "WARN", Nowhere)
                 \/ \E t \in Tables : f = Trouble("vacuum.table_disabled", "WARN", t)
         /\ Trouble("vacuum.disabled", "WARN", Nowhere) \in Troubles <=> ~recovering /\ SwitchedOff
         /\ \A t \in Tables :
              Trouble("vacuum.table_disabled", "WARN", t) \in Troubles <=> ~recovering /\ Neglected(t)
<1>1. ReportedBy[cmd] = {"vacuum.disabled", "vacuum.table_disabled"}
  BY DEF ReportedBy
<1> QED BY <1>1, TroubleIs, FindingsTell, TellsFindings, TroubleParts, TruthIs

-----------------------------------------------------------------------------
(* What has been read, command by command *)

LEMMA ProbeOne ==
  ASSUME TypeOK, Probe, NEW p, p = Steps[cmd][pos]
  PROVE  /\ pos \in 1..Len(Steps[cmd]) /\ pos' = pos + 1
         /\ UNCHANGED <<instance, cmd, role, exit, held, touched, glimpses>>
         /\ p \notin Stats => saw'[Into(p)] \in Query(p)
         /\ p \in Stats => saw'[Into(p)] = Stat(p)
         /\ \A q \in Results : q # Into(p) => saw'[q] = saw[q]
<1>1. cmd \in Commands /\ DOMAIN saw = Results
  BY TypesAre DEF ProgramOK
<1>2. /\ Looking /\ pos' = pos + 1 /\ UNCHANGED <<instance, cmd, role, exit, held, touched, glimpses>>
      /\ p \notin Stats => \E got \in Query(p) : Reads(Into(p), got)
      /\ p \in Stats => Reads(Into(p), Stat(p))
  BY ProbesAre
<1>3. Into(p) \in Results
  BY <1>1, <1>2, StepsAre, IntoIs DEF Results
<1> QED BY <1>1, <1>2, <1>3 DEF Reads, Looking

LEMMA FreshOne ==
  ASSUME Stages, Fresh
  PROVE  \A p \in Results : saw'[p] = NotRead /\ saw'[p].status = "none" /\ saw'[p].rows = {}
BY AnswersAre DEF Stages, Fresh

LEMMA Kinds ==
  ASSUME TypeOK, [Next]_vars
  PROVE  cmd' = cmd /\ cmd \in Commands /\ (Quiet \/ Fresh \/ (Probe /\ pos # 0 /\ pos' # 0))
<1>1. cmd \in Commands /\ pos \in Nat
  BY TypesAre, PlacesAre DEF ProgramOK
<1> QED BY <1>1, StepKinds

\* Before a probe has read anything.
Blank == Stages /\ pos = 0
LEMMA BlankOne ==
  ASSUME Blank
  PROVE  \A p \in Results : saw[p] = NotRead /\ saw[p].status = "none" /\ saw[p].rows = {}
BY AnswersAre DEF Stages, Blank

LEMMA SlotsInit == Blank => SlotsTell
BY BlankOne DEF SlotsTell, Results

LEMMA SlotsNext ==
  ASSUME TypeOK, Stages, Noticed, SlotsTell, [Next]_vars
  PROVE  SlotsTell'
<1> SUFFICES ASSUME cmd = "slots" PROVE SlotsTell'
  BY Kinds DEF SlotsTell
<1>1. CASE Quiet
  BY <1>1 DEF Quiet, SlotsTell
<1>2. CASE Fresh
  BY <1>2, FreshOne DEF SlotsTell, Results
<1>3. CASE Probe /\ pos # 0
  <2>1. pos = 1 /\ Steps[cmd][pos] = "slot.list"
    BY <1>3, ProbeOne, SlotsPlan
  <2>2. UNCHANGED <<held, touched, cmd>> /\ saw'["slot.list"] \in SlotList
    BY <1>3, <2>1, ProbeOne, IntoIs, QueriesAre DEF Results
  <2>3. held \subseteq Troubles /\ Troubles \subseteq touched
    BY <1>3 DEF Noticed
  <2>4. slots \subseteq Standbys
    BY TypesAre DEF ServerOK, ReplicationOK
  <2>5. CASE saw'["slot.list"].status # "ok"
    BY <2>2, <2>5 DEF SlotsTell, SlotList, Failures, Missing, Classify, Ok
  <2>6. CASE saw'["slot.list"] = Ok({[slot |-> s, active |-> s \notin Inactive] : s \in slots})
    <3> DEFINE rows == {[slot |-> s, active |-> s \notin Inactive] : s \in slots}
    <3>1. saw'["slot.list"].status = "ok" /\ saw'["slot.list"].rows = rows
      BY <2>6 DEF Ok
    <3>2. ASSUME NEW r \in rows, ~r.active PROVE r.slot \in Inactive
      <4>1. PICK s \in slots : r = [slot |-> s, active |-> s \notin Inactive]
        OBVIOUS
      <4> QED BY <3>2, <4>1
    <3>3. \A s \in Inactive : \E r \in rows : ~r.active
      <4> SUFFICES ASSUME NEW s \in Inactive PROVE \E r \in rows : ~r.active
        OBVIOUS
      <4>1. s \in slots
        BY DEF Inactive
      <4>2. [slot |-> s, active |-> s \notin Inactive] \in rows
        BY <4>1
      <4> QED BY <4>2
    <3> HIDE DEF rows
    <3> QED BY <2>2, <2>3, <2>4, <3>1, <3>2, <3>3, SlotsTroubles DEF SlotsTell
  <2> QED BY <2>2, <2>5, <2>6 DEF SlotList, Failures, Missing, Classify
<1> QED BY <1>1, <1>2, <1>3, Kinds

LEMMA ArchiveInit == Blank => ArchiveTells
BY BlankOne DEF ArchiveTells, Results

LEMMA ArchiveNext ==
  ASSUME TypeOK, Stages, Noticed, RoleLasts, Archiver, ArchiveTells, [Next]_vars
  PROVE  ArchiveTells'
<1> SUFFICES ASSUME cmd = "archive" PROVE ArchiveTells'
  BY Kinds DEF ArchiveTells
<1>1. CASE Quiet
  BY <1>1 DEF Quiet, ArchiveTells, Alarming
<1>2. CASE Fresh
  BY <1>2, FreshOne DEF ArchiveTells, Results
<1>3. CASE Probe /\ pos # 0
  <2>1. CASE pos = 1
    <3>1. Steps[cmd][pos] = "archive.status"
      BY <2>1, ArchivePlan
    <3>2. /\ UNCHANGED <<held, touched, cmd, role>>
          /\ saw'["archive.status"] \in Failures \cup {Ok(ArchiveStatus)}
      BY <1>3, <3>1, ProbeOne, IntoIs, QueriesAre DEF Results
    <3>3. held \subseteq Troubles /\ Troubles \subseteq touched
      BY <1>3 DEF Noticed
    <3>4. CASE saw'["archive.status"] \in Failures
      BY <3>2, <3>4 DEF ArchiveTells, Failures, Missing, Classify
    <3>5. CASE saw'["archive.status"] = Ok(ArchiveStatus)
      <4> DEFINE a == [mode |-> mode, command |-> command, archived |-> archivedAt,
                       failed |-> failedAt]
      <4>1. saw'["archive.status"].status = "ok" /\ saw'["archive.status"].rows = {a}
        BY <3>5 DEF Ok, ArchiveStatus
      <4>2. Failing(a) <=> attempt = "failed"
        BY TypesAre DEF Archiver, Failing, Never, ServerOK, StorageOK
      <4>3. ArchiveFailing(recovering) => a.mode # "off" /\ a.command /\ Failing(a)
        BY <4>2 DEF ArchiveFailing, Archiving
      <4>4. mode \in {"off", "on", "always"} /\ role \in {"standby", "primary"}
        BY <1>3, TypesAre DEF ServerOK, StorageOK, Stages, Roles
      <4>5. Alarming(a) => ArchiveFailing(recovering)
        BY <4>2, <4>4 DEF Alarming, ArchiveFailing, Archiving, RoleLasts
      <4>6. held # {} => ArchiveFailing(recovering) /\ Alarming(a)
        <5>1. held # {} => ArchiveFailing(recovering)
          BY <3>3, ArchiveTroubles
        <5>2. held # {} /\ role = "standby" => mode = "always"
          BY DEF Archiver
        <5> QED BY <4>3, <5>1, <5>2 DEF Alarming
      <4>7. ArchiveFailing(recovering) => Trouble("archive.failing", "WARN", Nowhere) \in touched
        BY <3>3, ArchiveTroubles
      <4>8. \A b : Alarming(b)' <=> Alarming(b)
        BY <3>2 DEF Alarming
      <4> HIDE DEF a
      <4> QED BY <3>2, <4>1, <4>5, <4>6, <4>7, <4>8 DEF ArchiveTells
    <3> QED BY <3>2, <3>4, <3>5
  <2>2. CASE pos = 2
    <3>1. Steps[cmd][pos] = "archive.ready"
      BY <2>2, ArchivePlan
    <3>2. UNCHANGED <<held, touched, cmd, role>> /\ saw'["archive.status"] = saw["archive.status"]
      BY <1>3, <3>1, ProbeOne, IntoIs DEF Results
    <3> QED BY <3>2 DEF ArchiveTells, Alarming
  <2>3. pos \in 1..2
    BY <1>3, ProbeOne, ArchivePlan
  <2> QED BY <2>1, <2>2, <2>3
<1> QED BY <1>1, <1>2, <1>3, Kinds

LEMMA FreezeInit == Blank => FreezeTells
BY BlankOne DEF FreezeTells, Results

LEMMA FreezeNext ==
  ASSUME TypeOK, Stages, Noticed, Times, FreezeTells, [Next]_vars
  PROVE  FreezeTells'
<1> SUFFICES ASSUME cmd = "freeze" PROVE FreezeTells'
  BY Kinds DEF FreezeTells
<1>1. maxAge' = maxAge
  BY ServerMoves, TypesAre DEF Moved
<1>2. ASSUME UNCHANGED <<cmd, maxAge>>, held' \subseteq held, touched \subseteq touched',
             saw'["freeze.databases"] = saw["freeze.databases"],
             saw'["freeze.limits"] = saw["freeze.limits"]
      PROVE  FreezeTells'
  BY <1>2 DEF FreezeTells, AtLeast
<1>3. CASE Quiet
  BY <1>1, <1>2, <1>3 DEF Quiet
<1>4. CASE Fresh
  BY <1>4, FreshOne DEF FreezeTells, Results
<1>5. CASE Probe /\ pos # 0
  <2> DEFINE p == Steps[cmd][pos]
  <2>1. /\ UNCHANGED <<held, touched, cmd>>
        /\ p \notin Stats => saw'[Into(p)] \in Query(p)
        /\ \A q \in Results : q # Into(p) => saw'[q] = saw[q]
    BY <1>5, ProbeOne
  <2>2. held \subseteq Troubles /\ Troubles \subseteq touched
    BY <1>5 DEF Noticed
  <2>3. CASE p = "freeze.databases"
    <3> HIDE DEF p
    <3>1. /\ saw'["freeze.databases"] \in FreezeDatabases
          /\ saw'["freeze.limits"] = saw["freeze.limits"]
      BY <2>1, <2>3, IntoIs, QueriesAre DEF Results
    <3>2. CASE saw'["freeze.databases"] \in Failures
      BY <1>1, <2>1, <3>1, <3>2 DEF FreezeTells, Failures, Missing, Classify
    <3>3. CASE saw'["freeze.databases"] = Ok({[name |-> d, age |-> age[d]] : d \in Databases})
      <4> DEFINE rows == {[name |-> d, age |-> age[d]] : d \in Databases}
      <4>1. saw'["freeze.databases"].status = "ok" /\ saw'["freeze.databases"].rows = rows
        BY <3>3 DEF Ok
      <4>2. rows # {}
        BY UpkeepAssumption
      <4>3. ASSUME NEW r \in rows
            PROVE  /\ AtLeast(r.age, StopAge) => Trouble("freeze.database_age", "FAIL", r.name) \in Troubles
                   /\ AtLeast(r.age, maxAge) => Trouble("freeze.database_age", "WARN", r.name) \in Troubles
        <5>1. PICK d \in Databases : r = [name |-> d, age |-> age[d]]
          OBVIOUS
        <5>2. /\ AtLeast(age[d], StopAge) => Stopped(d)
              /\ AtLeast(age[d], maxAge) => Due(d)
          BY DEF AtLeast, Stopped, Due, Old
        <5> QED BY <5>1, <5>2, FreezeTroubles
      <4>4. ASSUME NEW f \in Troubles
            PROVE  \E d \in rows : AtLeast(d.age, IF f.level = "FAIL" THEN StopAge ELSE maxAge)
        <5>1. PICK d \in Databases :
                \/ f = Trouble("freeze.database_age", "FAIL", d) /\ Stopped(d)
                \/ f = Trouble("freeze.database_age", "WARN", d) /\ Due(d)
          BY FreezeTroubles
        <5>2. AtLeast(age[d], IF f.level = "FAIL" THEN StopAge ELSE maxAge)
          BY <5>1, TroubleParts DEF AtLeast, Stopped, Due, Old
        <5>3. [name |-> d, age |-> age[d]] \in rows
          OBVIOUS
        <5> QED BY <5>2, <5>3
      <4>5. UNCHANGED StopAge /\ \A a, l : AtLeast(a, l)' = AtLeast(a, l)
        BY DEF AtLeast
      <4> HIDE DEF rows
      <4> QED BY <1>1, <2>1, <2>2, <3>1, <4>1, <4>2, <4>3, <4>4, <4>5 DEF FreezeTells
    <3> QED BY <3>1, <3>2, <3>3 DEF FreezeDatabases
  <2>4. CASE p = "freeze.limits"
    <3> HIDE DEF p
    <3>1. /\ saw'["freeze.limits"] \in FreezeLimits
          /\ saw'["freeze.databases"] = saw["freeze.databases"]
      BY <2>1, <2>4, IntoIs, QueriesAre DEF Results
    <3>2. /\ saw'["freeze.limits"].status # "not_applicable"
          /\ saw'["freeze.limits"].status = "ok" => saw'["freeze.limits"].rows = {maxAge}
      BY <3>1 DEF FreezeLimits, Failures, Missing, Classify, Ok
    <3> QED BY <1>1, <2>1, <3>1, <3>2 DEF FreezeTells, AtLeast
  <2>5. CASE p = "freeze.tables"
    <3> HIDE DEF p
    <3>1. /\ saw'["freeze.limits"] = saw["freeze.limits"]
          /\ saw'["freeze.databases"] = saw["freeze.databases"]
      BY <2>1, <2>5, IntoIs DEF Results
    <3> QED BY <1>1, <1>2, <2>1, <3>1
  <2>6. pos \in {1, 2, 3}
    BY <1>5, ProbeOne, FreezePlan
  <2> QED BY <2>3, <2>4, <2>5, <2>6, FreezePlan
<1> QED BY <1>3, <1>4, <1>5, Kinds

LEMMA StatusInit == Blank => StatusTells
BY BlankOne DEF StatusTells, Results

LEMMA StatusNext ==
  ASSUME TypeOK, Stages, Noticed, StatusTells, [Next]_vars
  PROVE  StatusTells'
<1> SUFFICES ASSUME cmd = "status" PROVE StatusTells'
  BY Kinds DEF StatusTells
<1> USE DEF Usable
<1>1. ASSUME cmd' = cmd, held' \subseteq held, touched \subseteq touched',
             saw'["inst.info"] = saw["inst.info"]
      PROVE  StatusTells'
  BY <1>1 DEF StatusTells
<1>2. CASE Quiet
  BY <1>1, <1>2 DEF Quiet
<1>3. CASE Fresh
  BY <1>3, FreshOne DEF StatusTells, Results
<1>4. CASE Probe /\ pos # 0
  <2> DEFINE p == Steps[cmd][pos]
  <2>1. /\ UNCHANGED <<held, touched, cmd>>
        /\ p \notin Stats => saw'[Into(p)] \in Query(p)
        /\ \A q \in Results : q # Into(p) => saw'[q] = saw[q]
    BY <1>4, ProbeOne
  <2>2. held \subseteq Troubles /\ Troubles \subseteq touched
    BY <1>4 DEF Noticed
  <2>3. CASE p = "inst.info"
    <3> HIDE DEF p
    <3>1. saw'["inst.info"] \in InstInfo
      BY <2>1, <2>3, IntoIs, QueriesAre DEF Results
    <3>2. CASE saw'["inst.info"] \in Failures
      BY <2>1, <3>2 DEF StatusTells, Failures, Missing, Classify
    <3>3. CASE \E d \in BOOLEAN : saw'["inst.info"] = Ok({[connections |-> conns, dir |-> d]})
      <4>1. PICK d \in BOOLEAN : saw'["inst.info"] = Ok({[connections |-> conns, dir |-> d]})
        BY <3>3
      <4>2. /\ saw'["inst.info"].status = "ok"
            /\ \A i \in saw'["inst.info"].rows : i.connections = conns
            /\ \E i \in saw'["inst.info"].rows : i.connections = conns
        <5> DEFINE i == [connections |-> conns, dir |-> d]
        <5>1. saw'["inst.info"].status = "ok" /\ saw'["inst.info"].rows = {i}
          BY <4>1 DEF Ok
        <5>2. i.connections = conns
          OBVIOUS
        <5> HIDE DEF i
        <5> QED BY <5>1, <5>2
      <4>3. Trouble("inst.connections", "FAIL", Nowhere) \in Troubles <=> conns >= Usable
        BY StatusTroubles DEF Full
      <4> QED BY <2>1, <2>2, <4>2, <4>3 DEF StatusTells
    <3> QED BY <3>1, <3>2, <3>3 DEF InstInfo
  <2>4. CASE p \in {"inst.databases", "inst.downstreams", "inst.upstream", "inst.disk"}
    <3> HIDE DEF p
    <3>1. saw'["inst.info"] = saw["inst.info"]
      BY <2>1, <2>4, IntoIs DEF Results
    <3> QED BY <1>1, <2>1, <3>1
  <2>5. pos \in {1, 2, 3, 4, 5}
    BY <1>4, ProbeOne, StatusPlan
  <2> QED BY <2>3, <2>4, <2>5, StatusPlan
<1> QED BY <1>2, <1>3, <1>4, Kinds

LEMMA ReplayInit == Blank => ReplayTells
BY BlankOne DEF ReplayTells, Results

LEMMA ReplayNext ==
  ASSUME TypeOK, Stages, Noticed, ReplayTells, [Next]_vars
  PROVE  ReplayTells'
<1> SUFFICES ASSUME cmd = "repl" PROVE ReplayTells'
  BY Kinds DEF ReplayTells
<1>1. ASSUME UNCHANGED <<cmd, role>>, held' \subseteq held, touched \subseteq touched',
             saw'["repl.replay"] = saw["repl.replay"]
      PROVE  ReplayTells'
  BY <1>1 DEF ReplayTells
<1>2. CASE Quiet
  BY <1>1, <1>2 DEF Quiet
<1>3. CASE Fresh
  BY <1>3, FreshOne DEF ReplayTells, Results
<1>4. CASE Probe /\ pos # 0
  <2> DEFINE p == Steps[cmd][pos]
  <2>1. /\ UNCHANGED <<held, touched, cmd, role>>
        /\ p \notin Stats => saw'[Into(p)] \in Query(p)
        /\ \A q \in Results : q # Into(p) => saw'[q] = saw[q]
    BY <1>4, ProbeOne
  <2>2. held \subseteq Troubles /\ Troubles \subseteq touched /\ role \in Roles
    BY <1>4 DEF Noticed, Stages
  <2>3. CASE p = "repl.replay"
    <3> HIDE DEF p
    <3>1. saw'["repl.replay"] \in ReplReplay(role)
      BY <2>1, <2>3, IntoIs, QueriesAre DEF Results
    <3>2. CASE saw'["repl.replay"] \in Failures \cup {Missing("not_applicable")}
      BY <2>1, <2>2, <3>1, <3>2 DEF ReplayTells, ReplReplay, Failures, Missing, Classify, Roles, Ok
    <3>3. CASE recovering /\ saw'["repl.replay"] = Ok({[paused |-> paused]})
      <4>1. saw'["repl.replay"].status = "ok" /\ saw'["repl.replay"].rows = {[paused |-> paused]}
        BY <3>3 DEF Ok
      <4>2. Trouble("repl.replay_paused", "WARN", Nowhere) \in Troubles <=> paused
        BY <3>3, ReplTroubles, TypesAre DEF ReplayPaused, ServerOK, ReplicationOK
      <4> QED BY <2>1, <2>2, <4>1, <4>2 DEF ReplayTells
    <3> QED BY <3>1, <3>2, <3>3 DEF ReplReplay
  <2>4. CASE p \in {"repl.downstreams", "repl.sync", "inst.upstream"}
    <3> HIDE DEF p
    <3>1. saw'["repl.replay"] = saw["repl.replay"]
      BY <2>1, <2>4, IntoIs DEF Results
    <3> QED BY <1>1, <2>1, <3>1
  <2>5. pos \in {1, 2, 3, 4}
    BY <1>4, ProbeOne, ReplPlan
  <2> QED BY <2>3, <2>4, <2>5, ReplPlan
<1> QED BY <1>2, <1>3, <1>4, Kinds

LEMMA UpstreamInit == Blank => UpstreamTells
BY BlankOne DEF UpstreamTells, Results

LEMMA UpstreamRead ==
  ASSUME TypeOK, Stages, Noticed, RoleLasts, cmd \in {"status", "repl"}, pos # 0,
         UNCHANGED <<held, touched, cmd, role>>, saw'["inst.upstream"] \in InstUpstream(role)
  PROVE  UpstreamTells'
<1> DEFINE t == Trouble("inst.upstream", "WARN", Nowhere)
           up == saw'["inst.upstream"]
<1>1. role \in Roles /\ receiver \in Receivers /\ setting \in Settings
  BY TypesAre DEF Stages, ServerOK, ReplicationOK
<1>2. t \in Troubles <=> NoUpstream
  BY <1>1, StatusTroubles, ReplTroubles
<1>3. held \subseteq Troubles /\ Troubles \subseteq touched
  BY DEF Noticed
<1>4. CASE up \in Failures \cup {Missing("not_applicable")}
  <2>1. up.status # "ok" /\ up.rows = {} /\ (up.status = "not_applicable" => role = "primary")
    BY <1>1, <1>4 DEF InstUpstream, Failures, Missing, Classify, Roles, Ok
  <2> QED BY <2>1 DEF UpstreamTells
<1>5. CASE role = "standby" /\ up = Ok(Upstream)
  <2>1. up.status = "ok" /\ up.rows = Upstream
    BY <1>5 DEF Ok
  <2>2. CASE receiver = "none"
    <3>1. t \in touched
      BY <1>2, <1>3, <1>5, <2>2, TypesAre DEF RoleLasts, NoUpstream, Receiving, ServerOK, ReplicationOK
    <3>2. Upstream = {}
      BY <2>2 DEF Upstream
    <3> QED BY <2>1, <3>1, <3>2 DEF UpstreamTells
  <2>3. CASE receiver # "none"
    <3> DEFINE u == [status |-> receiver, late |-> quiet, watched |-> watchdog]
    <3>1. up.rows = {u}
      BY <2>1, <2>3 DEF Upstream
    <3>2. recovering
      BY <1>5, <2>3 DEF RoleLasts
    <3>3. u.status # "NULL" /\ (NoUpstream <=> u.status # "streaming" \/ Stuck(u))
      BY <1>1, <3>2 DEF Receivers, NoUpstream, Receiving, Stuck
    <3> HIDE DEF u, t
    <3>4. ASSUME NEW v PROVE Stuck(v)' <=> Stuck(v)
      BY DEF Stuck
    <3> HIDE DEF up
    <3>5. UNCHANGED <<cmd, role, held, touched>> /\ up = saw'["inst.upstream"]
      BY DEF up
    <3> QED BY <1>2, <1>3, <2>1, <3>1, <3>3, <3>4, <3>5 DEF UpstreamTells, t
  <2> QED BY <2>2, <2>3
<1>6. CASE up = Ok(MaskedUpstream) /\ role = "standby"
  <2> DEFINE u == [status |-> "NULL", late |-> FALSE, watched |-> watchdog]
  <2>1. up.status = "ok" /\ up.rows = {u} /\ u.status = "NULL"
    BY <1>6 DEF Ok, MaskedUpstream
  <2> HIDE DEF u
  <2> QED BY <2>1 DEF UpstreamTells
<1> QED BY <1>4, <1>5, <1>6 DEF InstUpstream

LEMMA UpstreamNext ==
  ASSUME TypeOK, Stages, Noticed, RoleLasts, UpstreamTells, [Next]_vars
  PROVE  UpstreamTells'
<1> SUFFICES ASSUME cmd \in {"status", "repl"} PROVE UpstreamTells'
  BY Kinds DEF UpstreamTells
<1>1. ASSUME UNCHANGED <<cmd, role>>, held' \subseteq held, touched \subseteq touched',
             saw'["inst.upstream"] = saw["inst.upstream"]
      PROVE  UpstreamTells'
  BY <1>1 DEF UpstreamTells, Stuck
<1>2. CASE Quiet
  BY <1>1, <1>2 DEF Quiet
<1>3. CASE Fresh
  BY <1>3, FreshOne DEF UpstreamTells, Results
<1>4. CASE Probe /\ pos # 0
  <2> DEFINE p == Steps[cmd][pos]
  <2>1. /\ UNCHANGED <<held, touched, cmd, role>>
        /\ p \notin Stats => saw'[Into(p)] \in Query(p)
        /\ \A q \in Results : q # Into(p) => saw'[q] = saw[q]
    BY <1>4, ProbeOne
  <2>2. CASE p = "inst.upstream"
    <3> HIDE DEF p
    <3>1. saw'["inst.upstream"] \in InstUpstream(role)
      BY <2>1, <2>2, IntoIs, QueriesAre DEF Results
    <3> QED BY <1>4, <2>1, <3>1, UpstreamRead
  <2>3. CASE p \in {"inst.info", "inst.databases", "inst.downstreams", "inst.disk",
                    "repl.downstreams", "repl.sync", "repl.replay"}
    <3> HIDE DEF p
    <3>1. saw'["inst.upstream"] = saw["inst.upstream"]
      BY <2>1, <2>3, IntoIs DEF Results
    <3> QED BY <1>1, <2>1, <3>1
  <2>4. /\ cmd = "status" => pos \in {1, 2, 3, 4, 5}
        /\ cmd = "repl" => pos \in {1, 2, 3, 4}
    BY <1>4, ProbeOne, ReplPlan, StatusPlan
  <2> QED BY <2>2, <2>3, <2>4, ReplPlan, StatusPlan
<1> QED BY <1>2, <1>3, <1>4, Kinds

LEMMA VacuumInit == Blank => VacuumTells
BY BlankOne DEF VacuumTells, Results

LEMMA VacuumNext ==
  ASSUME TypeOK, Stages, Noticed, RoleLasts, VacuumTells, [Next]_vars
  PROVE  VacuumTells'
<1> SUFFICES ASSUME cmd = "vacuum" PROVE VacuumTells'
  BY Kinds DEF VacuumTells
<1>1. ASSUME UNCHANGED <<cmd, role>>, held' \subseteq held, touched \subseteq touched',
             glimpses \subseteq glimpses',
             saw'["vacuum.tables"] = saw["vacuum.tables"],
             saw'["vacuum.settings"] = saw["vacuum.settings"]
      PROVE  VacuumTells'
  BY <1>1 DEF VacuumTells
<1>2. CASE Quiet
  BY <1>1, <1>2 DEF Quiet
<1>3. CASE Fresh
  BY <1>3, FreshOne DEF VacuumTells, Results
<1>4. CASE Probe /\ pos # 0
  <2> DEFINE p == Steps[cmd][pos]
             tables == saw'["vacuum.tables"]
             settings == saw'["vacuum.settings"]
  <2>1. /\ UNCHANGED <<held, touched, glimpses, cmd, role>>
        /\ p \notin Stats => saw'[Into(p)] \in Query(p)
        /\ \A q \in Results : q # Into(p) => saw'[q] = saw[q]
    BY <1>4, ProbeOne
  <2>2. held \subseteq Troubles /\ Troubles \subseteq touched /\ role \in Roles
    BY <1>4 DEF Noticed, Stages
  <2>3. /\ \A r \in TableRows : [table |-> r] \in glimpses
        /\ [set |-> defaults] \in glimpses
    BY <1>4 DEF Noticed, Glimpse
  <2>4. CASE p = "track_counts"
    <3> HIDE DEF p
    <3>1. tables \in TrackCounts(role) /\ settings = saw["vacuum.settings"]
      BY <2>1, <2>4, IntoIs, QueriesAre DEF Results
    <3>2. tables.status # "ok" /\ (tables.status = "not_applicable" => role = "standby")
      BY <3>1 DEF TrackCounts, Failures, Missing, Classify, NotRead
    <3> HIDE DEF tables, settings
    <3> QED BY <2>1, <3>1, <3>2 DEF VacuumTells, tables, settings
  <2>5. CASE p = "vacuum.tables"
    <3> HIDE DEF p
    <3>1. tables \in VacuumTables(saw["vacuum.tables"]) /\ settings = saw["vacuum.settings"]
      BY <2>1, <2>5, IntoIs, QueriesAre DEF Results
    <3>2. CASE tables = saw["vacuum.tables"]
      BY <1>1, <2>1, <3>1, <3>2
    <3>3. CASE tables \in Failures
      <4>1. tables.status # "ok" /\ tables.status # "not_applicable"
        BY <3>3 DEF Failures, Missing, Classify
      <4> QED BY <2>1, <3>1, <4>1 DEF VacuumTells
    <3>4. CASE tables = Ok(TableRows)
      <4>1. tables.status = "ok" /\ tables.rows = TableRows
        BY <3>4 DEF Ok
      <4>2. /\ \A r \in TableRows : r.name \in Tables
            /\ \A t \in Tables : \E r \in TableRows : r.name = t
        <5>1. ASSUME NEW r \in TableRows PROVE r.name \in Tables
          BY DEF TableRows
        <5>2. ASSUME NEW t \in Tables PROVE \E r \in TableRows : r.name = t
          <6> DEFINE r == [name |-> t, dead |-> dead[t], reltuples |-> reltuples[t],
                           options |-> reloptions[t]]
          <6>1. r \in TableRows /\ r.name = t
            BY DEF TableRows
          <6> HIDE DEF r
          <6> QED BY <6>1
        <5> QED BY <5>1, <5>2
      <4> QED BY <2>1, <2>3, <3>1, <4>1, <4>2 DEF VacuumTells
    <3> QED BY <3>1, <3>2, <3>3, <3>4 DEF VacuumTables
  <2>6. CASE p = "vacuum.settings"
    <3> HIDE DEF p
    <3>1. settings \in VacuumSettings /\ tables = saw["vacuum.tables"]
      BY <2>1, <2>6, IntoIs, QueriesAre DEF Results
    <3>2. CASE settings \in Failures
      <4>1. settings.status # "ok" /\ settings.status # "not_applicable"
        BY <3>2 DEF Failures, Missing, Classify
      <4> QED BY <2>1, <3>1, <4>1 DEF VacuumTells
    <3> DEFINE set == [autovacuum |-> autovacuum, trackCounts |-> trackCounts, defaults |-> defaults]
    <3>3. CASE settings = Ok({set})
      <4>1. settings.status = "ok" /\ settings.rows = {set}
        BY <3>3 DEF Ok
      <4>2. /\ Trouble("vacuum.disabled", "WARN", Nowhere) \in Troubles <=>
                 ~recovering /\ ~(set.autovacuum /\ set.trackCounts)
            /\ set.defaults = defaults
        BY VacuumTroubles DEF SwitchedOff
      <4>3. role = "primary" => ~recovering
        BY DEF RoleLasts
      <4> HIDE DEF set, tables, settings
      <4> QED BY <2>1, <2>2, <2>3, <3>1, <4>1, <4>2, <4>3 DEF VacuumTells, tables, settings
    <3> QED BY <3>1, <3>2, <3>3 DEF VacuumSettings
  <2>7. CASE p = "vacuum.progress"
    <3> HIDE DEF p
    <3>1. settings = saw["vacuum.settings"] /\ tables = saw["vacuum.tables"]
      BY <2>1, <2>7, IntoIs DEF Results
    <3> QED BY <1>1, <2>1, <3>1
  <2>8. pos \in {1, 2, 3, 4}
    BY <1>4, ProbeOne, VacuumPlan
  <2> QED BY <2>4, <2>5, <2>6, <2>7, <2>8, VacuumPlan
<1> QED BY <1>2, <1>3, <1>4, Kinds

\* The standbys that count as synchronous are as many as the rows that say so.
LEMMA SyncCounted ==
  ASSUME NEW down, down.rows = Downstreams
  PROVE  /\ Cardinality(SyncStreaming(down)) = Cardinality(Synchronous)
         /\ Cardinality(Synchronous) \in Nat
<1> DEFINE row(s) == [name |-> s, state |-> senders[s],
                      sync |-> IF recovering THEN "async" ELSE SyncState(setting, Streaming, s)]
           f == [s \in Synchronous |-> row(s)]
           T == SyncStreaming(down)
<1>1. IsFiniteSet(Synchronous)
  <2>1. Synchronous \in SUBSET Standbys
    BY DEF Synchronous
  <2> QED BY <2>1, ReplicationAssumption, FS_Subset
<1>2. ASSUME NEW s \in Synchronous PROVE row(s) \in T
  <2>1. s \in Standbys /\ ~recovering /\ SyncState(setting, Streaming, s) \in {"sync", "quorum"}
    BY DEF Synchronous
  <2>2. s \in Streaming
    <3>1. s \notin Eligible(setting, Streaming) => SyncState(setting, Streaming, s) = "async"
      BY DEF SyncState
    <3> QED BY <2>1, <3>1 DEF Eligible
  <2>3. senders[s] # "gone"
    BY <2>2 DEF Streaming
  <2>4. row(s) \in Downstreams
    BY <2>1, <2>3 DEF Downstreams
  <2>5. row(s).sync \in {"sync", "quorum"}
    BY <2>1
  <2> HIDE DEF row
  <2> QED BY <2>4, <2>5 DEF SyncStreaming
<1>3. ASSUME NEW r \in T PROVE \E s \in Synchronous : r = row(s)
  <2>1. r \in Downstreams /\ r.sync \in {"sync", "quorum"}
    BY DEF SyncStreaming
  <2>2. PICK s \in Standbys : r = row(s)
    BY <2>1 DEF Downstreams
  <2>3. ~recovering /\ SyncState(setting, Streaming, s) \in {"sync", "quorum"}
    BY <2>1, <2>2
  <2>4. s \in Synchronous
    BY <2>3 DEF Synchronous
  <2> QED BY <2>2, <2>4
<1>4. \A a, b \in Synchronous : row(a) = row(b) => a = b
  <2>1. \A a : row(a).name = a
    OBVIOUS
  <2> HIDE DEF row
  <2> QED BY <2>1
<1> HIDE DEF row, T
<1>5. f \in Bijection(Synchronous, T)
  <2>1. f \in [Synchronous -> T]
    BY <1>2
  <2>2. \A a, b \in Synchronous : f[a] = f[b] => a = b
    BY <1>4
  <2>3. \A r \in T : \E s \in Synchronous : f[s] = r
    BY <1>3
  <2> HIDE DEF f
  <2> QED BY <2>1, <2>2, <2>3, Fun_IsBij
<1> HIDE DEF f
<1>6. ExistsBijection(Synchronous, T)
  BY <1>5 DEF ExistsBijection
<1> QED BY <1>1, <1>6, FS_Bijection, FS_CardinalityType DEF T

\* How many the setting asks for is what kbdiag reads there.
LEMMA AskedRead ==
  ASSUME Written
  PROVE  /\ Parse(text).ok /\ Parse(text).need = setting.num
         /\ text = <<>> <=> setting.num = 0
<1>1. Parse(text) = Understood(setting.num, MembersOf(setting))
  BY ReadAsWritten DEF Written
<1>2. Parse(text).ok /\ Parse(text).need = setting.num
  BY <1>1 DEF Understood
<1>3. ASSUME text = <<>> PROVE setting.num = 0
  BY <1>2, <1>3, EmptyRead DEF Understood
<1>4. ASSUME setting.num = 0 PROVE text = <<>>
  <2>1. 0 \notin DOMAIN Numerals
    BY DEF Numerals
  <2>2. setting = None
    BY <1>4, <2>1 DEF Written, Legal
  <2> QED BY <2>2 DEF Written, Texts, None
<1> QED BY <1>2, <1>3, <1>4

LEMMA SyncInit == Blank => SyncTells
BY BlankOne DEF SyncTells, Results

LEMMA SyncNext ==
  ASSUME TypeOK, Stages, Noticed, Written, SyncTells, [Next]_vars
  PROVE  SyncTells'
<1> SUFFICES ASSUME cmd = "repl" PROVE SyncTells'
  BY Kinds DEF SyncTells
<1>1. ASSUME UNCHANGED <<cmd, role>>, held' \subseteq held, glimpses \subseteq glimpses',
             saw'["repl.downstreams"] = saw["repl.downstreams"],
             saw'["repl.sync"] = saw["repl.sync"]
      PROVE  SyncTells'
  BY <1>1 DEF SyncTells, Asked, SyncStreaming
<1>2. CASE Quiet
  BY <1>1, <1>2 DEF Quiet
<1>3. CASE Fresh
  BY <1>3, FreshOne DEF SyncTells, Results
<1>4. CASE Probe /\ pos # 0
  <2> DEFINE p == Steps[cmd][pos]
             down == saw'["repl.downstreams"]
             sync == saw'["repl.sync"]
  <2>1. /\ UNCHANGED <<held, touched, glimpses, cmd, role>>
        /\ p \notin Stats => saw'[Into(p)] \in Query(p)
        /\ \A q \in Results : q # Into(p) => saw'[q] = saw[q]
    BY <1>4, ProbeOne
  <2>2. held \subseteq Troubles /\ role \in Roles
    BY <1>4 DEF Noticed, Stages
  <2>3. [synchronous |-> Cardinality(Synchronous)] \in glimpses /\ [asked |-> WaitsFor] \in glimpses
    BY <1>4 DEF Noticed, Glimpse
  <2>4. CASE p = "repl.downstreams"
    <3> HIDE DEF p
    <3>1. down \in ReplDownstreams /\ sync = saw["repl.sync"]
      BY <2>1, <2>4, IntoIs, QueriesAre DEF Results
    <3>2. down.status # "not_applicable" /\ (down.status = "ok" => down.rows = Downstreams)
      BY <3>1 DEF ReplDownstreams, Failures, Missing, Classify, Ok
    <3>3. down.status = "ok" => /\ Cardinality(SyncStreaming(down)) = Cardinality(Synchronous)
                                /\ Cardinality(Synchronous) \in Nat
      BY <3>2, SyncCounted
    <3> QED BY <2>1, <2>3, <3>1, <3>2, <3>3 DEF SyncTells, SyncStreaming, Asked
  <2>5. CASE p = "repl.sync"
    <3> HIDE DEF p
    <3>1. sync \in ReplSync(role) /\ down = saw["repl.downstreams"]
      BY <2>1, <2>5, IntoIs, QueriesAre DEF Results
    <3>2. CASE sync \in Failures \cup {Missing("not_applicable")}
      <4>1. /\ sync.status # "ok" /\ sync.rows = {} /\ sync # NotRead
            /\ sync.status = "not_applicable" <=> role = "standby"
        BY <3>1, <3>2 DEF ReplSync, Failures, Missing, Classify, Ok, NotRead
      <4> QED BY <2>1, <3>1, <4>1 DEF SyncTells, SyncStreaming
    <3> DEFINE set == [names |-> text, commit |-> commit]
    <3>3. CASE role # "standby" /\ sync = Ok({set})
      <4>1. sync.status = "ok" /\ sync.rows = {set} /\ set.names = text /\ set.commit = commit
        BY <3>3 DEF Ok
      <4>2. setting \in Settings /\ senders \in [Standbys -> Senders]
        BY TypesAre DEF ServerOK, ReplicationOK
      <4> HIDE DEF set
      <4>3. /\ Parse(set.names).ok /\ (set.names = <<>> <=> Parse(set.names).need = 0)
            /\ Parse(set.names).need \in {s.num : s \in Settings}
        BY <4>1, <4>2, AskedRead
      <4>4. Asked(set) = WaitsFor
        BY <4>1, AskedRead DEF Asked, WaitsFor
      <4>5. ASSUME NEW n, Trouble("repl.sync_short", "WARN", n) \in held
            PROVE  Asked(set) = n /\ n # 0
        <5>1. SyncShort /\ n = setting.num
          BY <2>2, <4>2, <4>5, ReplTroubles
        <5>2. Cardinality(Eligible(setting, Streaming)) \in Nat
          <6>1. Eligible(setting, Streaming) \in SUBSET Standbys
            BY DEF Eligible, Streaming
          <6>2. IsFiniteSet(Eligible(setting, Streaming))
            BY <6>1, ReplicationAssumption, FS_Subset
          <6> QED BY <6>2, FS_CardinalityType
        <5>3. WaitsFor # 0
          BY <5>1, <5>2 DEF SyncShort
        <5> QED BY <4>4, <5>1, <5>3 DEF WaitsFor
      <4> HIDE DEF sync, down
      <4>6. /\ sync = saw'["repl.sync"] /\ down = saw'["repl.downstreams"]
            /\ sync.status # "not_applicable"
        BY <4>1 DEF sync, down
      <4> QED BY <2>1, <2>3, <3>1, <3>3, <4>1, <4>3, <4>4, <4>5, <4>6 DEF SyncTells, SyncStreaming, Asked
    <3> QED BY <3>1, <3>2, <3>3 DEF ReplSync
  <2>6. CASE p \in {"inst.upstream", "repl.replay"}
    <3> HIDE DEF p
    <3>1. down = saw["repl.downstreams"] /\ sync = saw["repl.sync"]
      BY <2>1, <2>6, IntoIs DEF Results
    <3> QED BY <1>1, <2>1, <3>1
  <2>7. pos \in {1, 2, 3, 4}
    BY <1>4, ProbeOne, ReplPlan
  <2> QED BY <2>4, <2>5, <2>6, <2>7, ReplPlan
<1> QED BY <1>2, <1>3, <1>4, Kinds

LEMMA GatesInit == Blank => GatesTell
BY DEF Blank, GatesTell

LEMMA GatesNext ==
  ASSUME TypeOK, Stages, GatesTell, [Next]_vars
  PROVE  GatesTell'
<1> SUFFICES ASSUME cmd = "repl" PROVE GatesTell'
  BY Kinds DEF GatesTell
<1>1. CASE Quiet
  <2>1. Reporting = 5 /\ Done = 6
    BY ReplPlan DEF Reporting, Done
  <2>2. pos' = pos \/ (pos = 5 /\ pos' = 6)
    BY <1>1, <2>1 DEF Quiet
  <2> QED BY <1>1, <2>2 DEF Quiet, GatesTell
<1>2. CASE Fresh
  BY <1>2 DEF Fresh, GatesTell
<1>3. CASE Probe /\ pos # 0
  <2> DEFINE p == Steps[cmd][pos]
  <2>1. /\ UNCHANGED <<cmd, role>> /\ pos' = pos + 1
        /\ p \notin Stats => saw'[Into(p)] \in Query(p)
        /\ \A q \in Results : q # Into(p) => saw'[q] = saw[q]
    BY <1>3, ProbeOne
  <2>2. pos \in {1, 2, 3, 4}
    BY <1>3, ProbeOne, ReplPlan
  <2>3. p \in {"repl.downstreams", "repl.sync", "inst.upstream", "repl.replay"}
    BY <2>2, ReplPlan
  <2>4. ASSUME role = "standby", pos' > 2
        PROVE  saw'["repl.sync"].status = "not_applicable"
    <3>1. CASE pos = 2
      <4>1. p = "repl.sync"
        BY <3>1, ReplPlan
      <4> HIDE DEF p
      <4>2. saw'["repl.sync"] \in ReplSync(role)
        BY <2>1, <4>1, IntoIs, QueriesAre DEF Results
      <4> QED BY <2>4, <4>2 DEF ReplSync, Missing
    <3>2. CASE pos > 2
      <4>1. p # "repl.sync"
        BY <2>2, <3>2, ReplPlan
      <4> HIDE DEF p
      <4>2. saw'["repl.sync"] = saw["repl.sync"]
        BY <2>1, <2>3, <4>1, IntoIs DEF Results
      <4> QED BY <2>4, <3>2, <4>2 DEF GatesTell
    <3> QED BY <2>1, <2>2, <2>4, <3>1, <3>2
  <2>5. ASSUME role = "primary", pos' > 3
        PROVE  saw'["inst.upstream"].status = "not_applicable"
    <3>1. CASE pos = 3
      <4>1. p = "inst.upstream"
        BY <3>1, ReplPlan
      <4> HIDE DEF p
      <4>2. saw'["inst.upstream"] \in InstUpstream(role)
        BY <2>1, <4>1, IntoIs, QueriesAre DEF Results
      <4> QED BY <2>5, <4>2 DEF InstUpstream, Missing
    <3>2. CASE pos > 3
      <4>1. p # "inst.upstream"
        BY <2>2, <3>2, ReplPlan
      <4> HIDE DEF p
      <4>2. saw'["inst.upstream"] = saw["inst.upstream"]
        BY <2>1, <2>3, <4>1, IntoIs DEF Results
      <4> QED BY <2>5, <3>2, <4>2 DEF GatesTell
    <3> QED BY <2>1, <2>2, <2>5, <3>1, <3>2
  <2>6. ASSUME role = "primary", pos' > 4
        PROVE  saw'["repl.replay"].status = "not_applicable"
    <3>1. pos = 4
      BY <2>1, <2>2, <2>6
    <3>2. p = "repl.replay"
      BY <3>1, ReplPlan
    <3> HIDE DEF p
    <3>3. saw'["repl.replay"] \in ReplReplay(role)
      BY <2>1, <3>2, IntoIs, QueriesAre DEF Results
    <3> QED BY <2>6, <3>3 DEF ReplReplay, Missing
  <2> HIDE DEF p
  <2> QED BY <2>1, <2>4, <2>5, <2>6 DEF GatesTell
<1> QED BY <1>1, <1>2, <1>3, Kinds

-----------------------------------------------------------------------------
(* RoleLasts, Archiver and Disks *)

LEMMA RoleInit == Init => RoleLasts
BY DEF Init, RoleLasts

LEMMA RoleNext ==
  ASSUME TypeOK, Stages, Noticed, Times, RoleLasts, [Next]_vars
  PROVE  RoleLasts'
<1> DEFINE t == Trouble("inst.upstream", "WARN", Nowhere)
<1>1. Moved /\ recovering \in BOOLEAN /\ setting \in Settings
  BY ServerMoves, TypesAre DEF ServerOK, ReplicationOK
<1>2. CASE UNCHANGED <<role, cmd>> /\ pos # 0 /\ held' \subseteq held /\ touched \subseteq touched'
  <2>1. role = "primary" => ~recovering'
    BY <1>1 DEF Moved, RoleLasts
  <2>2. role = "standby" => \A f \in held' :
          f.id \notin {"repl.sync_short", "vacuum.disabled", "vacuum.table_disabled"}
    BY <1>2 DEF RoleLasts
  <2>3. ASSUME role = "standby", ~recovering', cmd \in {"status", "repl"}
        PROVE  receiver' = "none" /\ t \in touched'
    <3>1. CASE recovering
      <4>1. receiver = "none" /\ receiver' = "none"
        BY <1>1, <2>3, <3>1 DEF Moved
      <4>2. NoUpstream
        BY <3>1, <4>1 DEF NoUpstream, Receiving
      <4>3. t \in Troubles
        BY <1>1, <2>3, <4>2, StatusTroubles, ReplTroubles
      <4> QED BY <1>2, <4>1, <4>3 DEF Noticed
    <3>2. CASE ~recovering
      BY <1>1, <1>2, <2>3, <3>2 DEF RoleLasts, Moved
    <3> QED BY <3>1, <3>2
  <2> HIDE DEF t
  <2> QED BY <1>2, <2>1, <2>2, <2>3 DEF RoleLasts, t
<1>3. CASE Identify
  <2>1. /\ role' = (IF recovering THEN "standby" ELSE "primary") /\ held' = Troubles
        /\ recovering' = recovering
    BY <1>3 DEF Identify, instance, replication
  <2>2. ASSUME recovering, NEW f \in Troubles
        PROVE  f.id \notin {"repl.sync_short", "vacuum.disabled", "vacuum.table_disabled"}
    <3>1. f \in Findings /\ IsTrue(f)
      BY TroubleIs
    <3> QED BY <2>2, <3>1, FindingsTell, TruthIs, TroubleParts DEF SyncShort
  <2> QED BY <2>1, <2>2 DEF RoleLasts
<1>4. CASE UNCHANGED vars
  BY <1>4 DEF vars, program, history, instance, replication, RoleLasts
<1>5. CASE Probe /\ pos # 0
  BY <1>2, <1>5, ProbeOne
<1> QED BY <1>2, <1>3, <1>4, <1>5, Kinds DEF Quiet, Fresh

LEMMA ArchiverInit == Init => Archiver
BY InitTimes DEF Init, Archiver

LEMMA ArchiverNext ==
  ASSUME TypeOK, Stages, Noticed, Archiver, [Next]_vars
  PROVE  Archiver'
<1>1. Times' /\ Moved
  BY ServerMoves, TypesAre DEF Archiver, Times
<1>2. CASE UNCHANGED <<role, cmd>> /\ held' \subseteq held
  BY <1>1, <1>2 DEF Archiver, Times, Moved
<1>3. CASE Identify
  <2>1. role' = (IF recovering THEN "standby" ELSE "primary") /\ held' = Troubles /\ cmd' = cmd
    BY <1>3 DEF Identify
  <2>2. cmd = "archive" /\ recovering /\ Troubles # {} => mode = "always"
    BY ArchiveTroubles DEF ArchiveFailing, Archiving
  <2> QED BY <1>1, <2>1, <2>2 DEF Archiver, Times, Moved
<1>4. CASE UNCHANGED vars
  BY <1>2, <1>4 DEF vars, program, history
<1>5. CASE Probe
  BY <1>2, <1>5, ProbeOne
<1> QED BY <1>2, <1>3, <1>4, <1>5, Kinds DEF Quiet, Fresh

LEMMA DisksInit == Init => Disks
<1> SUFFICES ASSUME Init, cmd = "space" PROVE Disks
  BY DEF Disks
<1>1. InitDisks
  BY DEF Init
<1>2. AnyFilesystem # Nowhere
  BY StorageAssumption DEF AnyFilesystem
<1>3. PlainDisks => where["data"] = AnyFilesystem /\ where["wal"] = AnyFilesystem
  BY DEF PlainDisks, Directories
<1>4. Nowhere \notin {where["data"], where["wal"]}
  BY <1>1, <1>2, <1>3 DEF InitDisks
<1>5. place = "socket" => host = "server" /\ ~mirrored
  BY <1>1 DEF InitDisks, Reached
<1> QED BY <1>4, <1>5 DEF Disks

LEMMA DisksNext ==
  ASSUME TypeOK, Times, Disks, [Next]_vars
  PROVE  Disks'
BY Kinds, ServerMoves, TypesAre DEF Disks, Moved

-----------------------------------------------------------------------------
(* What a statfs tells *)

\* Of a directory that it meets.
LEMMA StatfsTells ==
  ASSUME cmd = "space", StorageOK, held \subseteq Troubles, Troubles \subseteq touched, Disks,
         ~mirrored, NEW d \in {"data", "wal"}, Met(d) # Nowhere, NEW r \in Statfs(d)
  PROVE  Weighed(r)
<1>1. r = [dir |-> d, fs |-> Met(d), avail |-> free[Met(d)]]
  BY DEF Statfs
<1>2. Met(d) = where[d]
  BY DEF Met, StorageOK
<1>3. d \in Directories
  BY DEF Directories
<1>4. where[d] \in Filesystems
  BY <1>3 DEF StorageOK, Disks
<1>5. free[where[d]] \in 0..Segment /\ Segment = 1
  BY <1>4 DEF StorageOK, Segment
<1>6. DiskFull(where[d]) <=> free[where[d]] < Segment
  BY DEF DiskFull
<1>7. Trouble("space.disk_full", "FAIL", where[d]) \in Troubles <=> DiskFull(where[d])
  BY <1>4, SpaceTroubles, TroubleParts
<1>8. r.dir = d /\ r.fs = where[d] /\ r.avail = free[where[d]]
  BY <1>1, <1>2
<1>9. r.avail \in Nat
  BY <1>5, <1>8
<1> QED BY <1>6, <1>7, <1>8, <1>9 DEF Weighed

\* A directory of the server's that is not blocked is met.
LEMMA StatfsMeets ==
  ASSUME cmd = "space", Disks, place = "socket", NEW d \in {"data", "wal"}, d \notin blocked
  PROVE  Met(d) # Nowhere
BY DEF Met, Disks

LEMMA StatfsOf == \A d : \A r \in Statfs(d) : r.dir = d
BY DEF Statfs

LEMMA StatfsSome == \A d : Statfs(d) # {}
BY DEF Statfs

LEMMA DiskInit == Blank => DiskTells
<1> SUFFICES ASSUME Blank PROVE DiskTells
  OBVIOUS
<1>1. saw["space.disk"] = NotRead /\ saw["space.disk"].status = "none" /\ saw["space.disk"].rows = {}
  BY BlankOne DEF Results
<1> QED BY <1>1 DEF DiskTells

\* How the answer for the disks is put together.
LEMMA DataRead ==
  ASSUME NEW info
  PROVE  LET got == StatData(info)
         IN  \/ got.status # "ok" /\ got.rows = {}
             \/ got.status = "ok" /\ got.rows = Statfs("data") /\ Met("data") # Nowhere
BY DEF StatData, Missing, Ok

LEMMA WALRead ==
  ASSUME NEW disk
  PROVE  LET got == StatWAL(disk)
         IN  \/ disk.status # "ok" /\ got = disk
             \/ got.status # "ok" /\ got.rows = {}
             \/ /\ disk.status = "ok" /\ got.status = disk.status /\ Met("wal") # Nowhere
                /\ got.rows = disk.rows \cup Statfs("wal")
BY DEF StatWAL, Missing

LEMMA TablespacesRead ==
  ASSUME NEW disk, NEW listed
  PROVE  LET got == StatTablespaces(disk, listed)
         IN  \/ disk.status # "ok" /\ got = disk
             \/ /\ disk.status = "ok" /\ got.status \in {"ok", "error"} /\ disk.rows \subseteq got.rows
                /\ \A r \in got.rows : r \in disk.rows \/ r.dir \in listed
<1> DEFINE bad == {t \in listed : Met(t) = Nowhere}
           got == StatTablespaces(disk, listed)
<1>1. CASE disk.status = "ok"
  <2>1. /\ got.status \in {"ok", "error"}
        /\ got.rows = disk.rows \cup UNION {Statfs(t) : t \in listed \ bad}
    BY <1>1 DEF StatTablespaces
  <2>2. \A r \in UNION {Statfs(t) : t \in listed \ bad} : r.dir \in listed
    BY StatfsOf
  <2> HIDE DEF bad, got
  <2> QED BY <1>1, <2>1, <2>2 DEF got
<1>2. CASE disk.status # "ok"
  BY <1>2 DEF StatTablespaces
<1> QED BY <1>1, <1>2

LEMMA DiskNext ==
  ASSUME TypeOK, Stages, Noticed, Times, Disks, DiskTells, SpaceTells, [Next]_vars
  PROVE  DiskTells'
<1> SUFFICES ASSUME cmd = "space" PROVE DiskTells'
  BY Kinds DEF DiskTells
<1> DEFINE disk == saw["space.disk"]
<1>1. /\ ServerOK /\ UNCHANGED mirrored /\ \A d \in {"data", "wal"} : where'[d] = where[d]
      /\ pos \in Nat /\ cmd' = cmd
  BY ServerMoves, TypesAre, Kinds, PlacesAre DEF Moved, ProgramOK
<1>2. ASSUME NEW r, r.dir \in {"data", "wal"}, held' \subseteq held, touched \subseteq touched', Weighed(r)
      PROVE  Weighed(r)'
  BY <1>1, <1>2 DEF Weighed
<1>3. ASSUME held' \subseteq held, touched \subseteq touched', disk' = disk,
             pos' \in Nat, pos' >= pos, pos > 3 \/ pos' <= 3, pos > 4 \/ pos' <= 4, pos > 5 \/ pos' <= 5
      PROVE  DiskTells'
  <2> HIDE DEF disk
  <2>1. disk = saw["space.disk"] /\ disk' = saw'["space.disk"]
    BY DEF disk
  <2> QED BY <1>1, <1>2, <1>3, <2>1 DEF DiskTells
<1>4. CASE Quiet
  <2>1. Reporting = 8 /\ Done = 9
    <3>1. Len(Steps[cmd]) = 7
      BY SpacePlan
    <3> QED BY <3>1 DEF Reporting, Done
  <2>2. /\ pos' \in Nat /\ pos' >= pos
        /\ (pos > 3 \/ pos' <= 3) /\ (pos > 4 \/ pos' <= 4) /\ (pos > 5 \/ pos' <= 5)
    BY <1>1, <1>4, <2>1 DEF Quiet
  <2>3. held' \subseteq held /\ touched \subseteq touched' /\ disk' = disk
    BY <1>4 DEF Quiet
  <2> HIDE DEF disk
  <2> QED BY <1>3, <2>2, <2>3
<1>5. CASE Fresh
  <2>1. disk' = NotRead /\ disk'.status = "none" /\ disk'.rows = {} /\ pos' <= 3
    BY <1>5, FreshOne DEF Fresh, Results
  <2> QED BY <2>1 DEF DiskTells
<1>6. CASE Probe /\ pos # 0
  <2> DEFINE p == Steps[cmd][pos]
  <2>1. /\ UNCHANGED <<held, touched, cmd>> /\ pos' = pos + 1
        /\ p \in Stats => saw'[Into(p)] = Stat(p)
        /\ \A q \in Results : q # Into(p) => saw'[q] = saw[q]
    BY <1>6, ProbeOne
  <2>2. held \subseteq Troubles /\ Troubles \subseteq touched
    BY <1>6 DEF Noticed
  <2>3. pos \in {1, 2, 3, 4, 5, 6, 7}
    <3>1. Len(Steps[cmd]) = 7
      BY SpacePlan
    <3> QED BY <1>6, <3>1, ProbeOne
  <2>4. ASSUME ~mirrored, NEW d \in {"data", "wal"}, Met(d) # Nowhere, NEW r \in Statfs(d)
        PROVE  Weighed(r)'
    <3>1. r.dir = d /\ Weighed(r)
      BY <1>1, <2>2, <2>4, StatfsTells, StatfsOf DEF ServerOK
    <3> QED BY <1>2, <2>1, <3>1
  <2>5. CASE pos = 3
    <3>1. p = "stat data"
      BY <2>5, SpacePlan
    <3>2. disk' = StatData(saw["inst.info"])
      BY <2>1, <3>1, IntoIs, StatsAre
    <3> HIDE DEF p, disk
    <3>3. \/ disk'.status # "ok" /\ disk'.rows = {}
          \/ disk'.status = "ok" /\ disk'.rows = Statfs("data") /\ Met("data") # Nowhere
      BY <3>2, DataRead
    <3>4. ~mirrored => \A r \in disk'.rows : r.dir \in {"data", "wal"} => Weighed(r)'
      BY <2>4, <3>3
    <3>5. pos' = 4
      BY <2>1, <2>5
    <3>6. disk' = saw'["space.disk"]
      BY DEF disk
    <3> QED BY <1>1, <3>3, <3>4, <3>5, <3>6, StatfsOf, StatfsSome DEF DiskTells
  <2>6. CASE pos = 4
    <3>1. p = "stat wal"
      BY <2>6, SpacePlan
    <3>2. disk' = StatWAL(disk)
      BY <2>1, <3>1, IntoIs, StatsAre
    <3> HIDE DEF p, disk
    <3>3. disk = saw["space.disk"] /\ disk' = saw'["space.disk"]
      BY DEF disk
    <3>4. /\ disk.status # "ok" => disk.rows = {}
          /\ disk.status = "ok" => disk.rows # {}
          /\ disk.rows # {} => \E r \in disk.rows : r.dir = "data"
          /\ ~mirrored => \A r \in disk.rows : r.dir \in {"data", "wal"} => Weighed(r)
      BY <2>6, <3>3 DEF DiskTells
    <3>5. pos' = 5
      BY <2>1, <2>6
    <3>6. \/ disk'.status # "ok" /\ disk'.rows = {}
          \/ /\ disk'.status = "ok" /\ Met("wal") # Nowhere
             /\ disk.rows # {} /\ disk'.rows = disk.rows \cup Statfs("wal")
      BY <3>2, <3>4, WALRead
    <3>7. ~mirrored => \A r \in disk'.rows : r.dir \in {"data", "wal"} => Weighed(r)'
      BY <1>2, <2>1, <2>4, <3>4, <3>6
    <3>8. disk'.rows # {} => /\ \E r \in disk'.rows : r.dir = "data"
                             /\ \E r \in disk'.rows : r.dir = "wal"
      BY <3>4, <3>6, StatfsOf, StatfsSome
    <3> QED BY <1>1, <3>3, <3>5, <3>6, <3>7, <3>8 DEF DiskTells
  <2>7. CASE pos = 5
    <3> DEFINE listed == Located(saw["space.tablespaces"])
    <3>1. p = "stat tablespaces"
      BY <2>7, SpacePlan
    <3>2. disk' = StatTablespaces(disk, listed)
      BY <2>1, <3>1, IntoIs, StatsAre
    <3>3. \A d \in listed : d \notin {"data", "wal"}
      BY DEF Located, SpaceTells
    <3> HIDE DEF p, disk, listed
    <3>4. disk = saw["space.disk"] /\ disk' = saw'["space.disk"]
      BY DEF disk
    <3>5. /\ disk.status # "ok" => disk.rows = {}
          /\ disk.status = "ok" => disk.rows # {}
          /\ disk.rows # {} => \E r \in disk.rows : r.dir = "data"
          /\ disk.rows # {} => \E r \in disk.rows : r.dir = "wal"
          /\ ~mirrored => \A r \in disk.rows : r.dir \in {"data", "wal"} => Weighed(r)
      BY <2>7, <3>4 DEF DiskTells
    <3>6. pos' = 6
      BY <2>1, <2>7
    <3>7. \/ disk.status # "ok" /\ disk' = disk
          \/ /\ disk.status = "ok" /\ disk.rows \subseteq disk'.rows
             /\ \A r \in disk'.rows : r \in disk.rows \/ r.dir \in listed
      BY <3>2, TablespacesRead
    <3>8. ~mirrored => \A r \in disk'.rows : r.dir \in {"data", "wal"} => Weighed(r)'
      BY <1>2, <2>1, <3>3, <3>5, <3>7
    <3> QED BY <1>1, <3>4, <3>5, <3>6, <3>7, <3>8 DEF DiskTells
  <2>8. CASE pos \in {1, 2, 6, 7}
    <3>1. p \in {"space.tablespaces", "inst.info", "inst.databases", "space.wal"}
      BY <2>8, SpacePlan
    <3> HIDE DEF p
    <3>2. disk' = disk
      BY <2>1, <3>1, IntoIs DEF Results
    <3>3. /\ pos' \in Nat /\ pos' >= pos
          /\ (pos > 3 \/ pos' <= 3) /\ (pos > 4 \/ pos' <= 4) /\ (pos > 5 \/ pos' <= 5)
      BY <2>1, <2>8
    <3> QED BY <1>3, <2>1, <3>2, <3>3
  <2> QED BY <2>3, <2>5, <2>6, <2>7, <2>8
<1> QED BY <1>4, <1>5, <1>6, Kinds

LEMMA SpaceInit == Blank => SpaceTells
<1> SUFFICES ASSUME Blank PROVE SpaceTells
  OBVIOUS
<1>1. \A p \in {"space.wal", "inst.info", "space.tablespaces"} :
         saw[p].status = "none" /\ saw[p].rows = {}
  BY BlankOne DEF Results
<1> QED BY <1>1 DEF SpaceTells, Blank

\* When the data and the WAL can be looked at, they are.
LEMMA Looked ==
  ASSUME TypeOK, Disks, DiskTells, SpaceTells, Probe, cmd = "space", place = "socket",
         {"data", "wal"} \cap blocked = {}, \E i \in saw["inst.info"].rows : i.dir, pos \in {3, 4, 5}
  PROVE  saw'["space.disk"].rows # {}
<1> DEFINE p == Steps[cmd][pos]
           disk == saw["space.disk"]
<1>1. p \in Stats => saw'[Into(p)] = Stat(p)
  BY ProbeOne
<1>2. \A d \in {"data", "wal"} : Met(d) # Nowhere
  BY StatfsMeets
<1>3. CASE pos = 3
  <2>1. p = "stat data"
    BY <1>3, SpacePlan
  <2>2. saw'["space.disk"] = StatData(saw["inst.info"])
    BY <1>1, <2>1, IntoIs, StatsAre
  <2>3. saw["inst.info"].status = "ok"
    BY DEF SpaceTells
  <2>4. StatData(saw["inst.info"]) = Ok(Statfs("data"))
    BY <1>2, <2>3 DEF StatData
  <2> QED BY <2>2, <2>4, StatfsSome DEF Ok
<1>4. CASE pos = 4
  <2>1. p = "stat wal"
    BY <1>4, SpacePlan
  <2>2. saw'["space.disk"] = StatWAL(disk)
    BY <1>1, <2>1, IntoIs, StatsAre
  <2>3. disk.rows # {} /\ (disk.status # "ok" => disk.rows = {})
    BY <1>4 DEF SpaceTells, DiskTells
  <2>4. StatWAL(disk) = [disk EXCEPT !.rows = @ \cup Statfs("wal")]
    BY <1>2, <2>3 DEF StatWAL
  <2>5. StatWAL(disk).rows = disk.rows \cup Statfs("wal")
    BY <2>4
  <2> QED BY <2>2, <2>3, <2>5
<1>5. CASE pos = 5
  <2>1. p = "stat tablespaces"
    BY <1>5, SpacePlan
  <2>2. saw'["space.disk"] = StatTablespaces(disk, Located(saw["space.tablespaces"]))
    BY <1>1, <2>1, IntoIs, StatsAre
  <2>3. disk.rows # {}
    BY <1>5 DEF SpaceTells
  <2> QED BY <2>2, <2>3, TablespacesRead
<1> QED BY <1>3, <1>4, <1>5

LEMMA SpaceNext ==
  ASSUME TypeOK, Stages, Noticed, Times, Disks, DiskTells, SpaceTells, [Next]_vars
  PROVE  SpaceTells'
<1> SUFFICES ASSUME cmd = "space" PROVE SpaceTells'
  BY Kinds DEF SpaceTells
<1>1. UNCHANGED <<place, blocked>> /\ cmd' = cmd /\ StorageOK /\ pos \in Nat
  BY ServerMoves, TypesAre, Kinds, PlacesAre DEF Moved, ServerOK, ProgramOK
<1>2. \A w : w.rows = SpaceWAL <=> w.rows = {[segment |-> Segment]}
  BY DEF SpaceWAL
<1>3. CASE UNCHANGED saw /\ pos' \in Nat /\ (pos > 3 \/ pos' <= 3)
  BY <1>1, <1>3 DEF SpaceTells, SpaceWAL
<1>4. CASE Quiet
  <2>1. Reporting = 8 /\ Done = 9
    <3>1. Len(Steps[cmd]) = 7
      BY SpacePlan
    <3> QED BY <3>1 DEF Reporting, Done
  <2>2. pos' \in Nat /\ (pos > 3 \/ pos' <= 3)
    BY <1>1, <1>4, <2>1 DEF Quiet
  <2> QED BY <1>3, <1>4, <2>2 DEF Quiet
<1>5. CASE Fresh
  <2>1. pos' \in Nat /\ pos' <= 3 /\ UNCHANGED saw
    BY <1>5 DEF Fresh
  <2> QED BY <1>3, <2>1
<1>6. CASE Probe /\ pos # 0
  <2> DEFINE p == Steps[cmd][pos]
             wal == saw'["space.wal"]
             info == saw'["inst.info"]
             spread == saw'["space.tablespaces"]
  <2>1. /\ pos' = pos + 1
        /\ p \notin Stats => saw'[Into(p)] \in Query(p)
        /\ \A q \in Results : q # Into(p) => saw'[q] = saw[q]
    BY <1>6, ProbeOne
  <2>2. pos \in {1, 2, 3, 4, 5, 6, 7}
    <3>1. Len(Steps[cmd]) = 7
      BY SpacePlan
    <3> QED BY <1>6, <3>1, ProbeOne
  <2>3. wal.status # "not_applicable" /\ (wal.status = "ok" => wal.rows = {[segment |-> Segment]})
    <3>1. CASE pos = 7
      <4>1. p = "space.wal"
        BY <3>1, SpacePlan
      <4> HIDE DEF p
      <4>2. wal \in Failures \cup {Ok(SpaceWAL)}
        BY <2>1, <4>1, IntoIs, QueriesAre DEF Results
      <4> QED BY <4>2 DEF Failures, Missing, Classify, Ok, SpaceWAL
    <3>2. CASE pos # 7
      <4>1. p \in {"space.tablespaces", "inst.info", "stat data", "stat wal", "stat tablespaces", "inst.databases"}
        BY <2>2, <3>2, SpacePlan
      <4> HIDE DEF p
      <4>2. wal = saw["space.wal"]
        BY <2>1, <4>1, IntoIs DEF Results
      <4> QED BY <1>2, <4>2 DEF SpaceTells
    <3> QED BY <3>1, <3>2
  <2>4. info.rows # {} => info.status = "ok"
    <3>1. CASE pos = 2
      <4>1. p = "inst.info"
        BY <3>1, SpacePlan
      <4> HIDE DEF p
      <4>2. info \in InstInfo
        BY <2>1, <4>1, IntoIs, QueriesAre DEF Results
      <4> QED BY <4>2 DEF InstInfo, Failures, Missing, Ok
    <3>2. CASE pos # 2
      <4>1. p \in {"space.tablespaces", "space.wal", "stat data", "stat wal", "stat tablespaces", "inst.databases"}
        BY <2>2, <3>2, SpacePlan
      <4> HIDE DEF p
      <4>2. info = saw["inst.info"]
        BY <2>1, <4>1, IntoIs DEF Results
      <4> QED BY <4>2 DEF SpaceTells
    <3> QED BY <3>1, <3>2
  <2>5. \A r \in spread.rows : r.dir \notin {"data", "wal"}
    <3>1. CASE pos = 1
      <4>1. p = "space.tablespaces"
        BY <3>1, SpacePlan
      <4> HIDE DEF p
      <4>2. spread \in Failures \cup {Ok(rows) : rows \in SpaceTablespaces}
        BY <2>1, <4>1, IntoIs, QueriesAre DEF Results
      <4>3. spread.rows = {} \/ spread.rows \in SpaceTablespaces
        BY <4>2 DEF Failures, Missing, Ok
      <4>4. ASSUME NEW rows \in SpaceTablespaces, NEW r \in rows PROVE r.dir \notin {"data", "wal"}
        <5>1. r.dir \in spaces \cup {"inside"}
          BY DEF SpaceTablespaces, Inside
        <5> QED BY <1>1, <5>1, StorageAssumption DEF StorageOK
      <4> QED BY <4>3, <4>4
    <3>2. CASE pos # 1
      <4>1. p \in {"inst.info", "space.wal", "stat data", "stat wal", "stat tablespaces", "inst.databases"}
        BY <2>2, <3>2, SpacePlan
      <4> HIDE DEF p
      <4>2. spread = saw["space.tablespaces"]
        BY <2>1, <4>1, IntoIs DEF Results
      <4> QED BY <4>2 DEF SpaceTells
    <3> QED BY <3>1, <3>2
  <2>6. ASSUME pos' > 3, place = "socket", {"data", "wal"} \cap blocked = {}, \E i \in info.rows : i.dir
        PROVE  saw'["space.disk"].rows # {}
    <3>1. pos \in {3, 4, 5, 6, 7}
      BY <2>1, <2>2, <2>6
    <3>2. p \in {"space.wal", "stat data", "stat wal", "stat tablespaces", "inst.databases"}
      BY <3>1, SpacePlan
    <3>3. info = saw["inst.info"]
      <4> HIDE DEF p
      <4> QED BY <2>1, <3>2, IntoIs DEF Results
    <3>4. CASE pos \in {3, 4, 5}
      BY <1>6, <2>6, <3>3, <3>4, Looked
    <3>5. CASE pos \in {6, 7}
      <4>1. p \in {"space.wal", "inst.databases"}
        BY <3>5, SpacePlan
      <4> HIDE DEF p
      <4>2. saw'["space.disk"] = saw["space.disk"]
        BY <2>1, <4>1, IntoIs DEF Results
      <4>3. pos > 3
        BY <3>5
      <4> QED BY <2>6, <3>3, <4>2, <4>3 DEF SpaceTells
    <3> QED BY <3>1, <3>4, <3>5
  <2> HIDE DEF p
  <2> QED BY <1>1, <2>3, <2>4, <2>5, <2>6 DEF SpaceTells, SpaceWAL
<1> QED BY <1>4, <1>5, <1>6, Kinds

-----------------------------------------------------------------------------
(* The invariant holds *)

LEMMA InvInit == Init => IInv
<1> SUFFICES ASSUME Init PROVE IInv
  OBVIOUS
<1>1. TypeOK /\ Stages /\ Noticed
  BY CommonInit
<1>2. Blank
  BY <1>1 DEF Init, Blank
<1>3. RoleLasts /\ Archiver /\ Disks /\ Written
  BY RoleInit, ArchiverInit, DisksInit, WrittenInit
<1> QED
  BY <1>1, <1>2, <1>3, SlotsInit, ArchiveInit, FreezeInit, DiskInit, SpaceInit, UpstreamInit,
     StatusInit, ReplayInit, SyncInit, GatesInit, VacuumInit DEF IInv

LEMMA InvNext == IInv /\ [Next]_vars => IInv'
<1> SUFFICES ASSUME IInv, [Next]_vars PROVE IInv'
  OBVIOUS
<1> USE DEF IInv
<1>1. Times
  BY DEF Archiver, Times
<1>2. TypeOK' /\ Stages' /\ Noticed'
  BY <1>1, CommonNext
<1>3. RoleLasts' /\ Archiver' /\ Disks' /\ Written'
  BY <1>1, RoleNext, ArchiverNext, DisksNext, WrittenNext
<1>4. SlotsTell' /\ ArchiveTells' /\ FreezeTells'
  BY <1>1, SlotsNext, ArchiveNext, FreezeNext
<1>5. DiskTells' /\ SpaceTells' /\ UpstreamTells'
  BY <1>1, DiskNext, SpaceNext, UpstreamNext
<1>6. StatusTells' /\ ReplayTells' /\ SyncTells' /\ GatesTell' /\ VacuumTells'
  BY StatusNext, ReplayNext, SyncNext, GatesNext, VacuumNext
<1> QED BY <1>2, <1>3, <1>4, <1>5, <1>6

LEMMA Invariant == Spec => []IInv
BY InvInit, InvNext, PTL DEF Spec

\* The state of the instance and of the run is what it is declared to be, for
\* any number of databases, tables, standbys, settings and filesystems.
THEOREM NodeTypeCorrect == Spec => []TypeOK
<1>1. IInv => TypeOK
  BY DEF IInv
<1> QED BY <1>1, Invariant, PTL

-----------------------------------------------------------------------------
(* StopIsSeen *)

\* A database at the stop limit is a FAIL whenever the databases could be read:
\* the limits that are built in need no setting of the server (ageFinding).
LEMMA StopJudged ==
  ASSUME NEW databases, NEW limits, databases.status = "ok",
         \E d \in databases.rows : AtLeast(d.age, StopAge)
  PROVE  FreezeRule(databases, limits).verdict = "FAIL"
<1> DEFINE levels == UNION {AgeFinding(d.age, limits) : d \in databases.rows}
<1>1. PICK d \in databases.rows : AtLeast(d.age, StopAge)
  OBVIOUS
<1>2. AgeFinding(d.age, limits) = {"FAIL"}
  BY <1>1 DEF AgeFinding, AtLeast
<1>3. "FAIL" \in levels
  BY <1>2
<1>4. PICK unknown \in BOOLEAN : FreezeRule(databases, limits) = Result(levels, unknown)
  BY DEF FreezeRule, Judgeable
<1> HIDE DEF levels
<1>5. VerdictOf(levels, unknown) = "FAIL"
  BY <1>3 DEF VerdictOf, Levels
<1> QED BY <1>4, <1>5 DEF Result

\* That the server refuses new xids is seen without its settings, whatever
\* happens to the databases during the run and however many there are.
THEOREM StopSeen == Spec => []StopIsSeen
<1>1. IInv => StopIsSeen
  <2> SUFFICES ASSUME IInv, pos = Done, cmd = "freeze", Judgeable(saw["freeze.databases"].status),
                      NEW f \in held, f.level = "FAIL"
               PROVE  exit = ExitCode("FAIL")
    BY DEF StopIsSeen
  <2>1. \E d \in saw["freeze.databases"].rows : AtLeast(d.age, StopAge)
    BY DEF IInv, FreezeTells, Judgeable
  <2>2. Judgement = FreezeRule(saw["freeze.databases"], saw["freeze.limits"])
    BY DEF Judgement
  <2>3. Judgement.verdict = "FAIL"
    BY <2>1, <2>2, StopJudged DEF Judgeable
  <2> QED BY <2>3 DEF IInv, Stages
<1> QED BY <1>1, Invariant, PTL

-----------------------------------------------------------------------------
(* TablespaceHidesNothing *)

\* When both directories have been looked at, one that is full is judged.
LEMMA FullJudged ==
  ASSUME NEW disk, NEW wal, NEW databases, NEW tablespaces,
         wal.status = "ok", wal.rows = SpaceWAL,
         NEW x \in disk.rows, x.dir = "data", NEW y \in disk.rows, y.dir = "wal",
         \A r \in disk.rows : r.dir \in {"data", "wal"} => r.fs = where[r.dir],
         x.avail < Segment \/ y.avail < Segment,
         where["data"] = where["wal"] => x.avail < Segment
  PROVE  Space(databases, tablespaces, wal, disk).verdict = "FAIL"
<1>1. [segment |-> Segment] \in wal.rows /\ [segment |-> Segment].segment = 1 /\ Segment = 1
  BY DEF SpaceWAL, Segment
<1>2. \A r \in Judged(disk) : r.avail < Segment => r \in FullRows(disk, wal)
  BY <1>1 DEF FullRows, Judgeable
<1>3. x \in Judged(disk)
  BY DEF Judged
<1>4. where["data"] # where["wal"] => y \in Judged(disk)
  BY DEF Judged
<1>5. FullRows(disk, wal) # {}
  BY <1>2, <1>3, <1>4
<1>6. Space(databases, tablespaces, wal, disk) = Result({"FAIL"}, FALSE)
  BY <1>5 DEF Space
<1> QED BY <1>6 DEF Result, VerdictOf, Levels

LEMMA FullSeen ==
  ASSUME IInv, pos = Done, cmd = "space", ~mirrored, saw["space.disk"].rows # {},
         saw["space.wal"].status = "ok", held # {}
  PROVE  Judgement.verdict = "FAIL"
<1> DEFINE disk == saw["space.disk"]
           wal == saw["space.wal"]
<1>1. Reporting = 8 /\ Done = 9
  <2>1. Len(Steps[cmd]) = 7
    BY SpacePlan
  <2> QED BY <2>1 DEF Reporting, Done
<1>2. pos > 3 /\ pos > 4 /\ pos # 0
  BY <1>1
<1>3. PICK x \in disk.rows : x.dir = "data"
  BY <1>2 DEF IInv, DiskTells
<1>4. PICK y \in disk.rows : y.dir = "wal"
  BY <1>2 DEF IInv, DiskTells
<1>5. \A r \in disk.rows : r.dir \in {"data", "wal"} => Weighed(r)
  BY DEF IInv, DiskTells
<1>6. PICK f \in held : TRUE
  OBVIOUS
<1>7. f \in Troubles /\ StorageOK
  BY <1>2, <1>6, TypesAre DEF IInv, Noticed, ServerOK
<1>8. PICK fs \in Filesystems : f = Trouble("space.disk_full", "FAIL", fs) /\ DiskFull(fs)
  BY <1>7, SpaceTroubles
<1>9. fs \in {where["data"], where["wal"]}
  BY <1>8 DEF DiskFull
<1>10. /\ fs = where["data"] => x.avail < Segment
       /\ fs = where["wal"] => y.avail < Segment
  BY <1>3, <1>4, <1>5, <1>6, <1>8 DEF Weighed
<1>11. wal.rows = SpaceWAL
  BY DEF IInv, SpaceTells
<1>12. \A r \in disk.rows : r.dir \in {"data", "wal"} => r.fs = where[r.dir]
  BY <1>5 DEF Weighed
<1>13. Judgement = Space(saw["inst.databases"], saw["space.tablespaces"], wal, disk)
  BY DEF Judgement
<1> HIDE DEF disk, wal
<1>14. wal.status = "ok"
  BY DEF wal
<1> QED BY <1>3, <1>4, <1>9, <1>10, <1>11, <1>12, <1>13, <1>14, FullJudged

\* A tablespace that cannot be reached does not hide a full filesystem under
\* the data or the WAL, whatever is mounted, created or filled during the run.
THEOREM TablespaceHides == Spec => []TablespaceHidesNothing
<1>1. IInv => TablespaceHidesNothing
  <2> SUFFICES ASSUME IInv, pos = Done, cmd = "space", place = "socket",
                      {"data", "wal"} \cap blocked = {}, Judgeable(saw["space.wal"].status),
                      \E i \in saw["inst.info"].rows : i.dir, held # {}
               PROVE  exit = ExitCode("FAIL")
    BY DEF TablespaceHidesNothing
  <2>1. pos > 3
    <3>1. Len(Steps[cmd]) = 7
      BY SpacePlan
    <3> QED BY <3>1 DEF Done
  <2>2. saw["space.disk"].rows # {} /\ ~mirrored
    BY <2>1 DEF IInv, SpaceTells, Disks
  <2>3. Judgement.verdict = "FAIL"
    BY <2>2, FullSeen DEF Judgeable
  <2> QED BY <2>3 DEF IInv, Stages
<1> QED BY <1>1, Invariant, PTL

-----------------------------------------------------------------------------
(* An honest exit code *)

Lasting == held \ Doubtful
Appeared == touched \cup Pieced

\* What a rule finds has appeared, what lasts it finds or is blind.
Fair(levels, unknown) ==
  /\ levels \subseteq Levels
  /\ levels = {} => (unknown <=> Blind)
  /\ \A l \in levels : \E f \in Appeared : f.level = l
  /\ Lasting # {} => levels # {} \/ Blind
  /\ \A f \in Lasting : f.level = "FAIL" => "FAIL" \in levels \/ Blind

HonestVerdict(v) ==
  \/ v = "OK" /\ Lasting = {} /\ ~Blind
  \/ /\ v = "WARN"
     /\ \E f \in Appeared : f.level = "WARN"
     /\ (\E f \in Lasting : f.level = "FAIL") => Blind
  \/ v = "FAIL" /\ \E f \in Appeared : f.level = "FAIL"
  \/ v = "UNKNOWN" /\ Blind

LEMMA VerdictIs ==
  ASSUME NEW levels \in SUBSET Levels, NEW unknown
  PROVE  LET v == VerdictOf(levels, unknown)
         IN  /\ "FAIL" \in levels => v = "FAIL"
             /\ "FAIL" \notin levels /\ levels # {} => v = "WARN"
             /\ levels = {} /\ unknown => v = "UNKNOWN"
             /\ levels = {} /\ ~unknown => v = "OK"
<1>1. "FAIL" \in levels => VerdictOf(levels, unknown) = "FAIL"
  BY DEF VerdictOf, Levels
<1>2. "FAIL" \notin levels /\ levels # {} => VerdictOf(levels, unknown) = "WARN"
  BY DEF VerdictOf, Levels
<1>3. levels = {} /\ unknown => VerdictOf(levels, unknown) = "UNKNOWN"
  BY DEF VerdictOf, Levels
<1>4. levels = {} /\ ~unknown => VerdictOf(levels, unknown) = "OK"
  BY DEF VerdictOf, Levels
<1> QED BY <1>1, <1>2, <1>3, <1>4

LEMMA FairIsHonest ==
  ASSUME NEW levels, NEW unknown, Fair(levels, unknown)
  PROVE  HonestVerdict(VerdictOf(levels, unknown))
<1>1. levels \in SUBSET Levels
  BY DEF Fair
<1>2. CASE "FAIL" \in levels
  BY <1>1, <1>2, VerdictIs DEF Fair, HonestVerdict
<1>3. CASE "FAIL" \notin levels /\ levels # {}
  <2>1. "WARN" \in levels
    BY <1>1, <1>3 DEF Levels
  <2> QED BY <1>1, <1>3, <2>1, VerdictIs DEF Fair, HonestVerdict
<1>4. CASE levels = {} /\ unknown
  BY <1>1, <1>4, VerdictIs DEF Fair, HonestVerdict
<1>5. CASE levels = {} /\ ~unknown
  BY <1>1, <1>5, VerdictIs DEF Fair, HonestVerdict
<1> QED BY <1>2, <1>3, <1>4, <1>5

\* The rule of a command is fair.
JudgedFairly == \E levels, unknown : Judgement.verdict = VerdictOf(levels, unknown) /\ Fair(levels, unknown)

LEMMA ResultIs == \A levels, unknown : Result(levels, unknown).verdict = VerdictOf(levels, unknown)
BY DEF Result

LEMMA BlindIsFair == Blind => Fair({}, TRUE)
BY DEF Fair

LEMMA SlotsFair ==
  ASSUME IInv, cmd = "slots", pos # 0
  PROVE  JudgedFairly
<1> DEFINE list == saw["slot.list"]
           levels == IF \E r \in list.rows : ~r.active THEN {"WARN"} ELSE {}
<1>1. Judgement = Slots(list) /\ (Blind <=> BlindSpot(list.status))
  BY DEF Judgement, Blind, Unread
<1>2. SlotsTell /\ held \subseteq Troubles /\ slots \subseteq Standbys
  BY TypesAre DEF IInv, Noticed, ServerOK, ReplicationOK
<1>3. \A f \in Lasting : f.level # "FAIL" /\ f \in held
  BY <1>2, SlotsTroubles, TroubleParts DEF Lasting
<1>4. CASE list.status # "ok"
  <2>1. Judgement.verdict = VerdictOf({}, BlindSpot(list.status)) /\ Blind
    BY <1>1, <1>2, <1>4, ResultIs DEF Slots, Judgeable, SlotsTell, BlindSpot
  <2> QED BY <1>1, <2>1 DEF JudgedFairly, Fair
<1>5. CASE list.status = "ok"
  <2>1. Judgement.verdict = VerdictOf(levels, FALSE) /\ ~Blind
    BY <1>1, <1>5, ResultIs DEF Slots, Judgeable, BlindSpot
  <2>2. levels # {} => \E f \in Appeared : f.level = "WARN"
    BY <1>2, <1>5, TroubleParts DEF SlotsTell, Appeared
  <2>3. Lasting # {} => levels # {}
    BY <1>2, <1>3, <1>5 DEF SlotsTell
  <2>4. levels \subseteq {"WARN"}
    OBVIOUS
  <2> HIDE DEF levels
  <2>5. Fair(levels, FALSE)
    BY <1>3, <2>1, <2>2, <2>3, <2>4 DEF Fair, Levels
  <2> QED BY <2>1, <2>5 DEF JudgedFairly
<1> QED BY <1>4, <1>5

LEMMA ArchiveFair ==
  ASSUME IInv, cmd = "archive", pos # 0
  PROVE  JudgedFairly
<1> DEFINE read == saw["archive.status"]
           levels == IF \E a \in read.rows : Alarming(a) THEN {"WARN"} ELSE {}
<1>1. Judgement = ArchiveRule(read, role) /\ (Blind <=> BlindSpot(read.status))
  BY DEF Judgement, Blind, Unread
<1>2. ArchiveTells /\ held \subseteq Troubles
  BY DEF IInv, Noticed
<1>3. \A f \in Lasting : f.level # "FAIL" /\ f \in held
  BY <1>2, ArchiveTroubles, TroubleParts DEF Lasting
<1>4. CASE read.status # "ok"
  <2>1. Judgement.verdict = VerdictOf({}, BlindSpot(read.status)) /\ Blind
    BY <1>1, <1>2, <1>4, ResultIs DEF ArchiveRule, Judgeable, ArchiveTells, BlindSpot
  <2> QED BY <1>1, <2>1 DEF JudgedFairly, Fair
<1>5. CASE read.status = "ok"
  <2>1. Judgement.verdict = VerdictOf(levels, FALSE) /\ ~Blind
    BY <1>1, <1>5, ResultIs DEF ArchiveRule, Alarming, Judgeable, BlindSpot
  <2>2. levels # {} => \E f \in Appeared : f.level = "WARN"
    BY <1>2, <1>5, TroubleParts DEF ArchiveTells, Appeared
  <2>3. Lasting # {} => levels # {}
    BY <1>2, <1>3, <1>5 DEF ArchiveTells
  <2>4. levels \subseteq {"WARN"}
    OBVIOUS
  <2> HIDE DEF levels
  <2>5. Fair(levels, FALSE)
    BY <1>3, <2>1, <2>2, <2>3, <2>4 DEF Fair, Levels
  <2> QED BY <2>1, <2>5 DEF JudgedFairly
<1> QED BY <1>4, <1>5

LEMMA FreezeFair ==
  ASSUME IInv, cmd = "freeze", pos # 0
  PROVE  JudgedFairly
<1> DEFINE read == saw["freeze.databases"]
           limits == saw["freeze.limits"]
           levels == UNION {AgeFinding(d.age, limits) : d \in read.rows}
           unknown == /\ ~Judgeable(limits.status)
                      /\ \E d \in read.rows : AgeFinding(d.age, limits) = {}
<1>1. /\ Judgement = FreezeRule(read, limits)
      /\ (Blind <=> BlindSpot(read.status) \/ BlindSpot(limits.status))
  BY DEF Judgement, Blind, Unread
<1>2. FreezeTells /\ held \subseteq Troubles
  BY DEF IInv, Noticed
<1>3. CASE read.status # "ok"
  <2>1. Judgement.verdict = VerdictOf({}, TRUE) /\ Blind
    BY <1>1, <1>2, <1>3, ResultIs DEF FreezeRule, Judgeable, FreezeTells, BlindSpot
  <2> QED BY <2>1, BlindIsFair DEF JudgedFairly
<1>4. CASE read.status = "ok"
  <2>1. Judgement.verdict = VerdictOf(levels, unknown)
    BY <1>1, <1>4, ResultIs DEF FreezeRule, Judgeable
  <2>2. Blind <=> limits.status # "ok"
    BY <1>1, <1>2, <1>4 DEF FreezeTells, BlindSpot
  <2>3. ASSUME NEW d \in read.rows
        PROVE  /\ AgeFinding(d.age, limits) \subseteq Levels
               /\ "FAIL" \in AgeFinding(d.age, limits) <=> AtLeast(d.age, StopAge)
               /\ limits.status = "ok" =>
                    ("WARN" \in AgeFinding(d.age, limits) <=>
                       ~AtLeast(d.age, StopAge) /\ AtLeast(d.age, maxAge))
               /\ limits.status # "ok" => "WARN" \notin AgeFinding(d.age, limits)
    <3>1. limits.status = "ok" => TheRow(limits) = maxAge
      BY <1>2 DEF FreezeTells, TheRow
    <3>2. AgeFinding(d.age, limits) =
            IF AtLeast(d.age, StopAge) THEN {"FAIL"}
            ELSE IF limits.status = "ok" /\ AtLeast(d.age, maxAge) THEN {"WARN"} ELSE {}
      BY <3>1 DEF AgeFinding, AtLeast, Judgeable
    <3> QED BY <3>2 DEF Levels
  <2>4. levels \subseteq Levels
    BY <2>3
  <2>5. levels = {} => (unknown <=> Blind)
    BY <1>2, <1>4, <2>2 DEF FreezeTells, Judgeable
  <2>6. ASSUME NEW l \in levels PROVE \E f \in Appeared : f.level = l
    <3>1. PICK d \in read.rows : l \in AgeFinding(d.age, limits)
      OBVIOUS
    <3>2. l = "FAIL" \/ l = "WARN"
      BY <2>4 DEF Levels
    <3> HIDE DEF levels, unknown
    <3> QED BY <1>2, <1>4, <2>3, <3>1, <3>2, TroubleParts DEF FreezeTells, Appeared
  <2>7. ASSUME NEW f \in Lasting
        PROVE  /\ f.level = "FAIL" => "FAIL" \in levels
               /\ levels # {} \/ Blind
    <3>1. PICK d \in read.rows : AtLeast(d.age, IF f.level = "FAIL" THEN StopAge ELSE maxAge)
      BY <1>2, <1>4 DEF FreezeTells, Lasting
    <3>2. f.level = "FAIL" => "FAIL" \in AgeFinding(d.age, limits)
      BY <2>3, <3>1
    <3>3. f.level # "FAIL" /\ ~Blind => AgeFinding(d.age, limits) # {}
      BY <2>2, <2>3, <3>1
    <3> QED BY <3>2, <3>3
  <2> HIDE DEF levels, unknown
  <2>8. Fair(levels, unknown)
    BY <2>4, <2>5, <2>6, <2>7 DEF Fair
  <2> QED BY <2>1, <2>8 DEF JudgedFairly
<1> QED BY <1>3, <1>4

LEMMA PartIs ==
  \A raised, blind : /\ Part(raised, blind).levels = IF raised THEN {"WARN"} ELSE {}
                     /\ Part(raised, blind).blind <=> blind
BY DEF Part

LEMMA UpstreamJudged ==
  ASSUME IInv, cmd \in {"status", "repl"}, pos # 0
  PROVE  LET up == saw["inst.upstream"]
             part == UpstreamPart(up)
             t == Trouble("inst.upstream", "WARN", Nowhere)
         IN  /\ part.levels \subseteq {"WARN"}
             /\ part.blind <=> MaskedRow \/ BlindSpot(up.status)
             /\ part.levels # {} => t \in touched
             /\ t \in held => part.levels # {} \/ part.blind
<1> DEFINE up == saw["inst.upstream"]
           part == UpstreamPart(up)
           t == Trouble("inst.upstream", "WARN", Nowhere)
<1>1. UpstreamTells /\ held \subseteq Troubles /\ RoleLasts /\ setting \in Settings
  BY TypesAre DEF IInv, Noticed, ServerOK, ReplicationOK
<1>2. MaskedRow <=> \E u \in up.rows : u.status = "NULL"
  BY DEF MaskedRow
<1>3. CASE up.status # "ok"
  <2>1. part = Part(FALSE, BlindSpot(up.status))
    BY <1>3 DEF UpstreamPart, Judgeable
  <2>2. part.levels = {} /\ (part.blind <=> BlindSpot(up.status))
    BY <2>1 DEF Part
  <2>3. ~MaskedRow
    BY <1>1, <1>2, <1>3 DEF UpstreamTells
  <2>4. t \in held => BlindSpot(up.status)
    <3>1. t \in held => recovering
      BY <1>1, StatusTroubles, ReplTroubles DEF NoUpstream
    <3> QED BY <1>1, <1>3, <3>1 DEF UpstreamTells, RoleLasts, BlindSpot
  <2> HIDE DEF part, t, up
  <2> QED BY <2>2, <2>3, <2>4 DEF part, t, up
<1>4. CASE up.status = "ok" /\ up.rows = {}
  <2>1. part = Part(TRUE, FALSE)
    BY <1>4 DEF UpstreamPart, Judgeable
  <2>2. part.levels = {"WARN"} /\ ~part.blind
    BY <2>1 DEF Part
  <2>3. ~MaskedRow /\ ~BlindSpot(up.status)
    BY <1>2, <1>4 DEF BlindSpot
  <2>4. t \in touched
    BY <1>1, <1>4 DEF UpstreamTells
  <2> HIDE DEF part, t, up
  <2> QED BY <2>2, <2>3, <2>4 DEF part, t, up
<1>5. CASE up.status = "ok" /\ up.rows # {}
  <2> DEFINE u == CHOOSE x \in up.rows : TRUE
             masked == u.status = "NULL"
             bad == u.status # "NULL" /\ (u.status # "streaming" \/ Stuck(u))
  <2>1. part = Part(bad, masked)
    BY <1>5 DEF UpstreamPart, Judgeable
  <2>2. up.rows = {u}
    BY <1>1, <1>5 DEF UpstreamTells
  <2> HIDE DEF u
  <2>3. /\ part.levels = IF bad THEN {"WARN"} ELSE {}
        /\ part.blind <=> masked
    <3> HIDE DEF bad, masked, part
    <3> QED BY <2>1, PartIs
  <2>4. MaskedRow <=> u.status = "NULL"
    BY <1>2, <2>2
  <2>5. ~BlindSpot(up.status)
    BY <1>5 DEF BlindSpot
  <2>6. bad => t \in touched
    BY <1>1, <1>5, <2>2 DEF UpstreamTells
  <2>7. t \in held => bad \/ u.status = "NULL"
    BY <1>1, <1>5, <2>2 DEF UpstreamTells
  <2> HIDE DEF part, t, up, bad
  <2> QED BY <2>3, <2>4, <2>5, <2>6, <2>7 DEF part, t, up
<1> QED BY <1>3, <1>4, <1>5

LEMMA StatusFair ==
  ASSUME IInv, cmd = "status", pos # 0
  PROVE  JudgedFairly
<1> DEFINE info == saw["inst.info"]
           up == saw["inst.upstream"]
           others == {saw["inst.databases"], saw["inst.downstreams"]}
           part == UpstreamPart(up)
           full == IF Judgeable(info.status) THEN ConnectionLevels(info) ELSE {}
           levels == full \cup part.levels
           unknown == (\E p \in {info} \cup others : BlindSpot(p.status)) \/ part.blind
<1>1. Judgement.verdict = VerdictOf(levels, unknown)
  <2>1. Judgement = Status(info, saw["inst.databases"], saw["inst.downstreams"], up)
    BY DEF Judgement
  <2> QED BY <2>1, ResultIs DEF Status
<1>2. Blind <=> MaskedRow \/ (\E p \in {info} \cup others : BlindSpot(p.status)) \/ BlindSpot(up.status)
  BY DEF Blind, Unread
<1>3. StatusTells /\ UpstreamTells /\ held \subseteq Troubles
  BY DEF IInv, Noticed
<1>4. \A f \in Lasting : /\ f \in held
                         /\ \/ f = Trouble("inst.connections", "FAIL", Nowhere)
                            \/ f = Trouble("inst.upstream", "WARN", Nowhere)
  BY <1>3, StatusTroubles DEF Lasting
<1>5. /\ full \subseteq {"FAIL"}
      /\ full # {} => Trouble("inst.connections", "FAIL", Nowhere) \in Appeared
      /\ Trouble("inst.connections", "FAIL", Nowhere) \in held => full # {} \/ BlindSpot(info.status)
  <2>1. Usable > 0
    BY ReplicationAssumption DEF Usable
  <2>2. full = IF info.status = "ok" /\ \E i \in info.rows : i.connections >= Usable
                 THEN {"FAIL"} ELSE {}
    BY <2>1 DEF Judgeable, ConnectionLevels
  <2> HIDE DEF full
  <2> QED BY <1>3, <2>2 DEF StatusTells, BlindSpot, Appeared
<1>6. /\ part.levels \subseteq {"WARN"}
      /\ part.blind <=> MaskedRow \/ BlindSpot(up.status)
      /\ part.levels # {} => Trouble("inst.upstream", "WARN", Nowhere) \in Appeared
      /\ Trouble("inst.upstream", "WARN", Nowhere) \in held => part.levels # {} \/ part.blind
  BY UpstreamJudged DEF Appeared
<1>7. unknown <=> Blind
  BY <1>2, <1>6
<1>8. BlindSpot(info.status) => Blind
  BY <1>2
<1> HIDE DEF full, part, unknown
<1>9. levels \subseteq Levels
  BY <1>5, <1>6 DEF Levels
<1>10. \A l \in levels : \E f \in Appeared : f.level = l
  BY <1>5, <1>6, TroubleParts
<1>11. Lasting # {} => levels # {} \/ Blind
  BY <1>2, <1>4, <1>5, <1>6, <1>8
<1>12. \A f \in Lasting : f.level = "FAIL" => "FAIL" \in levels \/ Blind
  <2> SUFFICES ASSUME NEW f \in Lasting, f.level = "FAIL" PROVE "FAIL" \in levels \/ Blind
    OBVIOUS
  <2>1. f = Trouble("inst.connections", "FAIL", Nowhere) /\ f \in held
    BY <1>4, TroubleParts
  <2>2. full # {} \/ Blind
    BY <1>5, <1>8, <2>1
  <2> QED BY <1>5, <2>2
<1> HIDE DEF levels
<1>13. Fair(levels, unknown)
  BY <1>7, <1>9, <1>10, <1>11, <1>12 DEF Fair
<1> QED BY <1>1, <1>13 DEF JudgedFairly

LEMMA SpaceJudged ==
  ASSUME IInv, cmd = "space", pos = Done, ~mirrored
  PROVE  /\ JudgedFairly
         /\ Judgement.verdict = "FAIL" => \E f \in touched : f.id = "space.disk_full"
<1> DEFINE disk == saw["space.disk"]
           wal == saw["space.wal"]
           databases == saw["inst.databases"]
           tablespaces == saw["space.tablespaces"]
           hidden == \/ \E r \in databases.rows \cup tablespaces.rows : r.redacted
                     \/ disk.status = "not_applicable"
           unknown == hidden \/ \E st \in {databases.status, tablespaces.status, wal.status, disk.status} :
                                  BlindSpot(st)
           found == FullRows(disk, wal)
<1>1. Judgement = Space(databases, tablespaces, wal, disk)
  BY DEF Judgement
<1>2. /\ found = {} => Judgement.verdict = VerdictOf({}, unknown)
      /\ found # {} => Judgement.verdict = VerdictOf({"FAIL"}, FALSE)
  BY <1>1, ResultIs DEF Space, Display
<1>3. unknown <=> Blind
  BY DEF Blind, Unread
<1>4. DiskTells /\ SpaceTells
  BY DEF IInv
<1>5. found # {} => \E f \in touched : f.id = "space.disk_full" /\ f.level = "FAIL"
  <2> SUFFICES ASSUME NEW r \in found
               PROVE  \E f \in touched : f.id = "space.disk_full" /\ f.level = "FAIL"
    OBVIOUS
  <2>1. wal.status = "ok" /\ r \in disk.rows /\ r.dir \in {"data", "wal"}
    BY DEF FullRows, Judged, Judgeable
  <2>2. PICK w \in wal.rows : r.avail < w.segment
    BY <2>1 DEF FullRows, Judgeable
  <2>3. w.segment = Segment
    BY <1>4, <2>1, <2>2 DEF SpaceTells, SpaceWAL
  <2>4. Weighed(r)
    BY <1>4, <2>1 DEF DiskTells
  <2> QED BY <2>2, <2>3, <2>4, TroubleParts DEF Weighed
<1>6. held # {} => found # {} \/ Blind
  <2> SUFFICES ASSUME held # {}, ~Blind, found = {} PROVE FALSE
    OBVIOUS
  <2>1. wal.status = "ok" /\ disk.status = "ok"
    BY <1>3, <1>4 DEF SpaceTells, BlindSpot
  <2>2. disk.rows # {}
    BY <1>4, <2>1 DEF DiskTells
  <2>3. Judgement.verdict = "FAIL"
    BY <2>1, <2>2, FullSeen
  <2>4. Judgement.verdict = "OK"
    BY <1>2, <1>3, VerdictIs
  <2> QED BY <2>3, <2>4
<1> HIDE DEF found, unknown
<1>7. CASE found = {}
  <2>1. Fair({}, unknown)
    BY <1>3, <1>6, <1>7 DEF Fair, Lasting
  <2>2. Judgement.verdict # "FAIL"
    BY <1>2, <1>7, VerdictIs
  <2> QED BY <1>2, <1>7, <2>1, <2>2 DEF JudgedFairly
<1>8. CASE found # {}
  <2>1. Fair({"FAIL"}, FALSE)
    BY <1>5, <1>8 DEF Fair, Levels, Appeared
  <2> QED BY <1>2, <1>5, <1>8, <2>1 DEF JudgedFairly
<1> QED BY <1>7, <1>8

-----------------------------------------------------------------------------
(* What two probes say together *)

LEMMA PairsAre ==
  /\ \A f : f.id = "repl.sync_short" =>
       Pairs(f) = {g.synchronous < h.asked : g \in {x \in glimpses : DOMAIN x = {"synchronous"}},
                                             h \in {x \in glimpses : DOMAIN x = {"asked"}}}
  /\ \A f : f.id = "vacuum.table_disabled" =>
       Pairs(f) = {~g.table.options.enabled /\ Past(g.table, h.set) :
                     g \in {x \in glimpses : DOMAIN x = {"table"} /\ x.table.name = f.of},
                     h \in {x \in glimpses : DOMAIN x = {"set"}}}
BY DEF Pairs

LEMMA SyncPaired ==
  ASSUME NEW few \in Nat, [synchronous |-> few] \in glimpses,
         NEW many \in Nat, [asked |-> many] \in glimpses,
         NEW n \in {set.num : set \in Settings}
  PROVE  LET t == Trouble("repl.sync_short", "WARN", n)
         IN  /\ few < many => t \in Pieced
             /\ ~(few < many) => t \in Doubtful
<1> DEFINE t == Trouble("repl.sync_short", "WARN", n)
           g == [synchronous |-> few]
           h == [asked |-> many]
<1>1. t \in Findings
  BY TellsFindings
<1>2. t.id = "repl.sync_short"
  BY TroubleParts
<1>3. /\ g \in {x \in glimpses : DOMAIN x = {"synchronous"}}
      /\ h \in {x \in glimpses : DOMAIN x = {"asked"}}
      /\ g.synchronous = few /\ h.asked = many
  OBVIOUS
<1> HIDE DEF t, g, h
<1>4. (few < many) \in Pairs(t)
  <2>1. (g.synchronous < h.asked) \in Pairs(t)
    BY <1>2, <1>3, PairsAre
  <2> QED BY <1>3, <2>1
<1>5. (few < many) \in BOOLEAN
  <2>1. few < many => (few < many) = TRUE
    OBVIOUS
  <2>2. ~(few < many) => (few < many) = FALSE
    OBVIOUS
  <2> QED BY <2>1, <2>2
<1> QED BY <1>1, <1>4, <1>5 DEF Pieced, Doubtful, t

LEMMA TablePaired ==
  ASSUME NEW r, r.name \in Tables, [table |-> r] \in glimpses,
         NEW set, [set |-> set] \in glimpses
  PROVE  LET t == Trouble("vacuum.table_disabled", "WARN", r.name)
             past == ~r.options.enabled /\ Past(r, set)
         IN  /\ past => t \in Pieced
             /\ ~past => t \in Doubtful
<1> DEFINE t == Trouble("vacuum.table_disabled", "WARN", r.name)
           g == [table |-> r]
           h == [set |-> set]
           past == ~r.options.enabled /\ Past(r, set)
<1>1. t \in Findings
  BY TellsFindings
<1>2. t.id = "vacuum.table_disabled" /\ t.of = r.name
  BY TroubleParts
<1>3. /\ g \in {x \in glimpses : DOMAIN x = {"table"} /\ x.table.name = r.name}
      /\ h \in {x \in glimpses : DOMAIN x = {"set"}}
      /\ g.table = r /\ h.set = set
  OBVIOUS
<1> HIDE DEF t, g, h
<1>4. past \in Pairs(t)
  <2>1. (~g.table.options.enabled /\ Past(g.table, h.set)) \in Pairs(t)
    BY <1>2, <1>3, PairsAre
  <2> QED BY <1>3, <2>1
<1>5. past \in BOOLEAN
  OBVIOUS
<1> HIDE DEF past
<1>6. /\ past => t \in Pieced
      /\ ~past => t \in Doubtful
  BY <1>1, <1>4, <1>5 DEF Pieced, Doubtful
<1> QED BY <1>6 DEF past, t

LEMMA ReplayJudged ==
  ASSUME IInv, cmd = "repl"
  PROVE  LET replay == saw["repl.replay"]
             part == ReplayPart(replay)
             t == Trouble("repl.replay_paused", "WARN", Nowhere)
         IN  /\ part.levels \subseteq {"WARN"}
             /\ part.blind <=> BlindSpot(replay.status)
             /\ part.levels # {} => t \in touched
             /\ t \in held /\ pos # 0 => part.levels # {} \/ part.blind
<1> DEFINE replay == saw["repl.replay"]
           part == ReplayPart(replay)
           t == Trouble("repl.replay_paused", "WARN", Nowhere)
           raised == \E p \in replay.rows : p.paused
<1>1. ReplayTells /\ RoleLasts /\ setting \in Settings /\ (pos # 0 => held \subseteq Troubles)
  BY TypesAre DEF IInv, Noticed, ServerOK, ReplicationOK
<1>2. CASE replay.status # "ok"
  <2>1. part = Part(FALSE, BlindSpot(replay.status))
    BY <1>2 DEF ReplayPart, Judgeable
  <2>2. part.levels = {} /\ (part.blind <=> BlindSpot(replay.status))
    BY <2>1 DEF Part
  <2>3. t \in held /\ pos # 0 => recovering
    BY <1>1, ReplTroubles DEF ReplayPaused
  <2>4. t \in held /\ pos # 0 => BlindSpot(replay.status)
    BY <1>1, <1>2, <2>3 DEF ReplayTells, RoleLasts, BlindSpot
  <2> HIDE DEF part, t, replay
  <2> QED BY <2>2, <2>4 DEF part, t, replay
<1>3. CASE replay.status = "ok"
  <2>1. part = Part(raised, FALSE)
    BY <1>3 DEF ReplayPart, Judgeable
  <2>2. part.levels = (IF raised THEN {"WARN"} ELSE {}) /\ ~part.blind
    <3> HIDE DEF raised, part
    <3> QED BY <2>1, PartIs
  <2>3. /\ raised => t \in touched
        /\ t \in held => raised
    BY <1>1, <1>3 DEF ReplayTells
  <2>4. ~BlindSpot(replay.status)
    BY <1>3 DEF BlindSpot
  <2> HIDE DEF part, t, replay, raised
  <2> QED BY <2>2, <2>3, <2>4 DEF part, t, replay
<1> QED BY <1>2, <1>3

\* Too few synchronous standbys, put together from two probes.
LEMMA SyncJudged ==
  ASSUME IInv, cmd = "repl"
  PROVE  LET sync == saw["repl.sync"]
             part == SyncPart(saw["repl.downstreams"], sync)
         IN  /\ part.levels \subseteq {"WARN"}
             /\ part.blind <=> Unread("repl.sync") \/ (WaitsForRead /\ Unread("repl.downstreams"))
             /\ part.levels # {} => \E f \in Appeared : f.level = "WARN"
             /\ \A n : Trouble("repl.sync_short", "WARN", n) \in Lasting =>
                  part.levels # {} \/ part.blind \/ sync.status = "not_applicable"
<1> DEFINE sync == saw["repl.sync"]
           down == saw["repl.downstreams"]
           part == SyncPart(down, sync)
           few == Cardinality(SyncStreaming(down))
           t(n) == Trouble("repl.sync_short", "WARN", n)
<1>1. SyncTells
  BY DEF IInv
<1>2. /\ WaitsForRead <=> \E set \in sync.rows : set.commit = "on" /\ set.names # <<>>
      /\ Unread("repl.sync") <=> BlindSpot(sync.status)
      /\ Unread("repl.downstreams") <=> BlindSpot(down.status)
  BY DEF WaitsForRead, Unread
<1>3. CASE sync.status # "ok"
  <2>1. part = Part(FALSE, BlindSpot(sync.status))
    BY <1>3 DEF SyncPart, Judgeable
  <2>2. part.levels = {} /\ (part.blind <=> BlindSpot(sync.status))
    BY <2>1 DEF Part
  <2>3. ~WaitsForRead
    BY <1>1, <1>2, <1>3 DEF SyncTells
  <2>4. BlindSpot(sync.status) \/ sync.status = "not_applicable"
    BY <1>3 DEF BlindSpot
  <2> HIDE DEF part, sync, down
  <2> QED BY <1>2, <2>2, <2>3, <2>4 DEF part, sync, down
<1>4. CASE sync.status = "ok"
  <2>1. PICK set \in sync.rows :
          /\ sync.rows = {set}
          /\ Parse(set.names).ok /\ (set.names = <<>> <=> Parse(set.names).need = 0)
          /\ Parse(set.names).need \in {s.num : s \in Settings}
          /\ [asked |-> Asked(set)] \in glimpses
          /\ \A n : t(n) \in held => Asked(set) = n /\ n # 0
    BY <1>1, <1>4 DEF SyncTells
  <2> DEFINE need == Parse(set.names).need
             short == few < need
             waits == set.commit = "on" /\ need # 0
  <2>2. (CHOOSE x \in sync.rows : TRUE) = set
    BY <2>1
  <2>3. WaitsForRead <=> waits
    BY <1>2, <2>1
  <2>4. part = IF ~waits THEN Part(FALSE, FALSE)
               ELSE IF ~Judgeable(down.status) THEN Part(FALSE, BlindSpot(down.status))
               ELSE Part(short, FALSE)
    BY <1>4, <2>1, <2>2 DEF SyncPart, Judgeable
  <2>5. ~BlindSpot(sync.status) /\ sync.status # "not_applicable"
    BY <1>4 DEF BlindSpot
  <2>6. \A n : t(n) \in Lasting => waits /\ n = need
    BY <2>1 DEF Asked, Lasting
  <2>7. need \in Nat
    <3>1. \A s \in Settings : s.num \in Nat
      BY ReplicationAssumption DEF Legal, None, Numerals
    <3> QED BY <2>1, <3>1
  <2>8. CASE ~waits
    <3>1. part.levels = {} /\ ~part.blind
      BY <2>4, <2>8 DEF Part
    <3> HIDE DEF part, sync, down, waits
    <3> QED BY <1>2, <2>3, <2>5, <2>6, <2>8, <3>1 DEF part, sync, down
  <2>9. CASE waits /\ down.status # "ok"
    <3>1. part = Part(FALSE, BlindSpot(down.status))
      BY <2>4, <2>9 DEF Judgeable
    <3>2. part.levels = {} /\ (part.blind <=> BlindSpot(down.status))
      BY <3>1 DEF Part
    <3>3. BlindSpot(down.status)
      BY <1>1, <2>9 DEF SyncTells, BlindSpot
    <3> HIDE DEF part, sync, down, waits
    <3> QED BY <1>2, <2>3, <2>5, <2>9, <3>2, <3>3 DEF part, sync, down
  <2>10. CASE waits /\ down.status = "ok"
    <3>1. part = Part(short, FALSE)
      BY <2>4, <2>10 DEF Judgeable
    <3>2. part.levels = (IF short THEN {"WARN"} ELSE {}) /\ ~part.blind
      <4> HIDE DEF short, part
      <4> QED BY <3>1, PartIs
    <3>3. few \in Nat /\ [synchronous |-> few] \in glimpses /\ [asked |-> need] \in glimpses
      BY <1>1, <2>1, <2>10 DEF SyncTells, Asked
    <3>4. /\ short => t(need) \in Pieced
          /\ ~short => t(need) \in Doubtful
      <4> HIDE DEF few, need
      <4> QED BY <2>1, <2>7, <3>3, SyncPaired DEF need
    <3>5. t(need).level = "WARN"
      BY TroubleParts
    <3>6. ~BlindSpot(down.status)
      BY <2>10 DEF BlindSpot
    <3>7. t(need) \notin Lasting \/ short
      BY <3>4 DEF Lasting
    <3>8. short => \E f \in Appeared : f.level = "WARN"
      BY <3>4, <3>5 DEF Appeared
    <3>9. \A n : t(n) \in Lasting => short
      <4> HIDE DEF t, need, waits, short
      <4> QED BY <2>6, <3>7
    <3> HIDE DEF part, sync, down, waits, t, need, short
    <3> QED BY <1>2, <2>3, <2>5, <2>10, <3>2, <3>6, <3>8, <3>9 DEF part, sync, down, t
  <2> QED BY <2>8, <2>9, <2>10
<1> QED BY <1>3, <1>4

LEMMA PartsAre ==
  ASSUME NEW a, NEW b, NEW c
  PROVE  Parts({a, b, c}).verdict =
           VerdictOf(a.levels \cup b.levels \cup c.levels, a.blind \/ b.blind \/ c.blind)
<1> DEFINE levels == UNION {p.levels : p \in {a, b, c}}
           some == \E p \in {a, b, c} : p.blind
           one == a.blind \/ b.blind \/ c.blind
<1>1. levels = a.levels \cup b.levels \cup c.levels
  OBVIOUS
<1>2. some = one
  <2>1. some \in BOOLEAN /\ one \in BOOLEAN
    BY Zenon
  <2>2. some <=> one
    OBVIOUS
  <2> HIDE DEF some, one
  <2> QED BY <2>1, <2>2, Zenon
<1>3. Parts({a, b, c}) = Result(levels, some)
  BY DEF Parts
<1> HIDE DEF levels, some, one
<1>4. Parts({a, b, c}).verdict = VerdictOf(a.levels \cup b.levels \cup c.levels, one)
  BY <1>1, <1>2, <1>3, ResultIs
<1> QED BY <1>4 DEF one

LEMMA ReplFair ==
  ASSUME IInv, cmd = "repl", pos = Done
  PROVE  JudgedFairly
<1> DEFINE up == UpstreamPart(saw["inst.upstream"])
           replay == ReplayPart(saw["repl.replay"])
           sync == SyncPart(saw["repl.downstreams"], saw["repl.sync"])
           levels == up.levels \cup replay.levels \cup sync.levels
           unknown == up.blind \/ replay.blind \/ sync.blind
<1>1. pos # 0 /\ pos > 2 /\ pos > 3 /\ pos > 4
  <2>1. Len(Steps[cmd]) = 4
    BY ReplPlan
  <2>2. Done = 6
    BY <2>1 DEF Done
  <2> QED BY <2>2
<1>2. /\ GatesTell /\ UpstreamTells /\ SyncTells /\ RoleLasts /\ held \subseteq Troubles
      /\ role \in Roles /\ setting \in Settings
  BY <1>1, TypesAre DEF IInv, Noticed, Stages, ServerOK, ReplicationOK
<1>3. Judgement.verdict = VerdictOf(levels, unknown)
  <2>1. Judgement = Parts({up, replay, sync})
    BY DEF Judgement, Repl
  <2> HIDE DEF up, replay, sync
  <2> QED BY <2>1, PartsAre
<1>4. /\ up.levels \subseteq {"WARN"}
      /\ up.blind <=> MaskedRow \/ Unread("inst.upstream")
      /\ up.levels # {} => Trouble("inst.upstream", "WARN", Nowhere) \in touched
      /\ Trouble("inst.upstream", "WARN", Nowhere) \in held => up.levels # {} \/ up.blind
  BY <1>1, UpstreamJudged DEF Unread
<1>5. /\ replay.levels \subseteq {"WARN"}
      /\ replay.blind <=> Unread("repl.replay")
      /\ replay.levels # {} => Trouble("repl.replay_paused", "WARN", Nowhere) \in touched
      /\ Trouble("repl.replay_paused", "WARN", Nowhere) \in held => replay.levels # {} \/ replay.blind
  BY <1>1, ReplayJudged DEF Unread
<1>6. /\ sync.levels \subseteq {"WARN"}
      /\ sync.blind <=> Unread("repl.sync") \/ (WaitsForRead /\ Unread("repl.downstreams"))
      /\ sync.levels # {} => \E f \in Appeared : f.level = "WARN"
      /\ \A n : Trouble("repl.sync_short", "WARN", n) \in Lasting =>
           sync.levels # {} \/ sync.blind \/ saw["repl.sync"].status = "not_applicable"
  BY SyncJudged
<1> HIDE DEF up, replay, sync
<1>7. unknown <=> Blind
  <2>1. Blind <=> IF role = "standby" THEN MaskedRow \/ Unread("inst.upstream") \/ Unread("repl.replay")
                  ELSE Unread("repl.sync") \/ (WaitsForRead /\ Unread("repl.downstreams"))
    BY DEF Blind
  <2>2. CASE role = "standby"
    <3>1. saw["repl.sync"].status = "not_applicable" /\ saw["repl.sync"].rows = {}
      BY <1>1, <1>2, <2>2 DEF GatesTell, SyncTells
    <3>2. ~WaitsForRead /\ ~Unread("repl.sync")
      BY <3>1 DEF WaitsForRead, Unread, BlindSpot
    <3> QED BY <1>4, <1>5, <1>6, <2>1, <2>2, <3>2
  <2>3. CASE role = "primary"
    <3>1. /\ saw["inst.upstream"].status = "not_applicable" /\ saw["inst.upstream"].rows = {}
          /\ saw["repl.replay"].status = "not_applicable"
      BY <1>1, <1>2, <2>3 DEF GatesTell, UpstreamTells
    <3>2. ~MaskedRow /\ ~Unread("inst.upstream") /\ ~Unread("repl.replay")
      BY <3>1 DEF MaskedRow, Unread, BlindSpot
    <3> QED BY <1>4, <1>5, <1>6, <2>1, <2>3, <3>2
  <2> QED BY <1>2, <2>2, <2>3 DEF Roles
<1>8. levels \subseteq {"WARN"}
  BY <1>4, <1>5, <1>6
<1>9. levels # {} => \E f \in Appeared : f.level = "WARN"
  BY <1>4, <1>5, <1>6, TroubleParts DEF Appeared
<1>10. ASSUME NEW f \in Lasting PROVE f.level = "WARN" /\ (levels # {} \/ unknown)
  <2>1. f \in held /\ f \in Troubles
    BY <1>2 DEF Lasting
  <2>2. CASE f = Trouble("inst.upstream", "WARN", Nowhere)
    BY <1>4, <2>1, <2>2, TroubleParts
  <2>3. CASE f = Trouble("repl.replay_paused", "WARN", Nowhere)
    BY <1>5, <2>1, <2>3, TroubleParts
  <2>4. ASSUME NEW n, f = Trouble("repl.sync_short", "WARN", n)
        PROVE  f.level = "WARN" /\ (levels # {} \/ unknown)
    <3>1. f.level = "WARN" /\ f.id = "repl.sync_short"
      BY <2>4, TroubleParts
    <3>2. role # "standby"
      BY <1>2, <2>1, <3>1 DEF RoleLasts
    <3>3. saw["repl.sync"].status # "not_applicable"
      BY <1>2, <3>2 DEF SyncTells
    <3> QED BY <1>6, <2>4, <3>1, <3>3
  <2> QED BY <1>2, <2>1, <2>2, <2>3, <2>4, ReplTroubles
<1> HIDE DEF levels, unknown
<1>11. Fair(levels, unknown)
  BY <1>7, <1>8, <1>9, <1>10 DEF Fair, Levels
<1> QED BY <1>3, <1>11 DEF JudgedFairly

LEMMA VacuumFair ==
  ASSUME IInv, cmd = "vacuum", pos # 0
  PROVE  JudgedFairly
<1> DEFINE tables == saw["vacuum.tables"]
           settings == saw["vacuum.settings"]
<1>1. /\ Judgement = VacuumRule(tables, settings, role)
      /\ Blind <=> role = "primary" /\ (BlindSpot(tables.status) \/ BlindSpot(settings.status))
  BY DEF Judgement, Blind, Unread
<1>2. VacuumTells /\ RoleLasts /\ held \subseteq Troubles /\ role \in Roles
  BY DEF IInv, Noticed, Stages
<1>3. ASSUME NEW f \in Lasting
      PROVE  /\ role = "primary" /\ f.level = "WARN" /\ f \in held
             /\ \/ f = Trouble("vacuum.disabled", "WARN", Nowhere)
                \/ \E t \in Tables : f = Trouble("vacuum.table_disabled", "WARN", t)
  <2>1. f \in held /\ f \in Troubles
    BY <1>2 DEF Lasting
  <2>2. \/ f = Trouble("vacuum.disabled", "WARN", Nowhere)
        \/ \E t \in Tables : f = Trouble("vacuum.table_disabled", "WARN", t)
    BY <2>1, VacuumTroubles
  <2>3. f.id \in {"vacuum.disabled", "vacuum.table_disabled"} /\ f.level = "WARN"
    BY <2>2, TroubleParts
  <2> QED BY <1>2, <2>1, <2>2, <2>3 DEF RoleLasts, Roles
<1>4. CASE role = "standby"
  <2>1. Judgement.verdict = VerdictOf({}, FALSE)
    BY <1>1, <1>4, ResultIs DEF VacuumRule
  <2>2. ~Blind /\ Lasting = {}
    BY <1>1, <1>3, <1>4
  <2>3. Fair({}, FALSE)
    BY <2>2 DEF Fair
  <2> QED BY <2>1, <2>3 DEF JudgedFairly
<1>5. CASE role = "primary" /\ settings.status # "ok"
  <2>1. Judgement.verdict = VerdictOf({}, TRUE)
    BY <1>1, <1>5, ResultIs DEF VacuumRule, Judgeable
  <2>2. Blind
    BY <1>1, <1>2, <1>5 DEF VacuumTells, BlindSpot
  <2> QED BY <2>1, <2>2, BlindIsFair DEF JudgedFairly
<1>6. CASE role = "primary" /\ settings.status = "ok"
  <2>1. PICK set \in settings.rows :
          /\ settings.rows = {set} /\ [set |-> set.defaults] \in glimpses
          /\ ~(set.autovacuum /\ set.trackCounts) /\ role = "primary" =>
               Trouble("vacuum.disabled", "WARN", Nowhere) \in touched
          /\ Trouble("vacuum.disabled", "WARN", Nowhere) \in held =>
               ~(set.autovacuum /\ set.trackCounts)
    BY <1>2, <1>6 DEF VacuumTells
  <2> DEFINE off == ~(set.autovacuum /\ set.trackCounts)
             table == tables.status = "ok" /\ \E r \in tables.rows : TableDisabled(r, set)
             levels == IF off \/ table THEN {"WARN"} ELSE {}
             unknown == BlindSpot(tables.status)
  <2>2. TheRow(settings) = set
    BY <2>1 DEF TheRow
  <2>3. Judgement.verdict = VerdictOf(levels, unknown)
    BY <1>1, <1>6, <2>2, ResultIs DEF VacuumRule, Judgeable
  <2>4. unknown <=> Blind
    BY <1>1, <1>6 DEF BlindSpot
  <2>5. ASSUME NEW r, tables.status = "ok", r \in tables.rows
        PROVE  LET t == Trouble("vacuum.table_disabled", "WARN", r.name)
               IN  /\ TableDisabled(r, set) => t \in Pieced
                   /\ ~TableDisabled(r, set) => t \in Doubtful
    <3>1. r.name \in Tables /\ [table |-> r] \in glimpses
      BY <1>2, <2>5 DEF VacuumTells
    <3>2. TableDisabled(r, set) <=> ~r.options.enabled /\ Past(r, set.defaults)
      BY DEF TableDisabled, VacuumThreshold, Past
    <3> QED BY <2>1, <3>1, <3>2, TablePaired
  <2>6. levels # {} => \E f \in Appeared : f.level = "WARN"
    <3>1. CASE off
      BY <1>6, <2>1, <3>1, TroubleParts DEF Appeared
    <3>2. CASE table
      BY <2>5, <3>2, TroubleParts DEF Appeared
    <3> QED BY <3>1, <3>2
  <2>7. ASSUME NEW f \in Lasting PROVE f.level = "WARN" /\ (levels # {} \/ Blind)
    <3>1. CASE f = Trouble("vacuum.disabled", "WARN", Nowhere)
      BY <1>3, <2>1, <3>1
    <3>2. ASSUME NEW t \in Tables, f = Trouble("vacuum.table_disabled", "WARN", t)
          PROVE  levels # {} \/ Blind
      <4>1. CASE tables.status = "ok"
        <5>1. PICK r \in tables.rows : r.name = t
          BY <1>2, <4>1 DEF VacuumTells
        <5>2. f \notin Doubtful
          BY DEF Lasting
        <5>3. TableDisabled(r, set)
          BY <2>5, <3>2, <4>1, <5>1, <5>2
        <5> QED BY <4>1, <5>3
      <4>2. CASE tables.status # "ok"
        BY <1>2, <1>6, <2>4, <4>2 DEF VacuumTells, BlindSpot
      <4> QED BY <4>1, <4>2
    <3> QED BY <1>3, <3>1, <3>2
  <2>8. levels \subseteq {"WARN"}
    OBVIOUS
  <2> HIDE DEF levels, unknown
  <2>9. Fair(levels, unknown)
    BY <2>4, <2>6, <2>7, <2>8 DEF Fair, Levels
  <2> QED BY <2>3, <2>9 DEF JudgedFairly
<1> QED BY <1>2, <1>4, <1>5, <1>6 DEF Roles

-----------------------------------------------------------------------------
(* Disks of one host *)

\* When the other host does not have the same directories.
LEMMA NeverMirrored == TRUE \notin Mirrors => (Spec => []~mirrored)
<1> SUFFICES ASSUME TRUE \notin Mirrors PROVE Spec => []~mirrored
  OBVIOUS
<1>1. Init => ~mirrored
  <2> SUFFICES ASSUME Init PROVE ~mirrored
    OBVIOUS
  <2>1. Reached
    BY DEF Init, InitDisks
  <2> QED BY <2>1, StorageAssumption DEF Reached
<1>2. IInv /\ ~mirrored /\ [Next]_vars => ~mirrored'
  <2> SUFFICES ASSUME IInv, ~mirrored, [Next]_vars PROVE ~mirrored'
    OBVIOUS
  <2>1. Times
    BY DEF IInv, Archiver, Times
  <2> QED BY <2>1, ServerMoves, TypesAre DEF IInv, Moved
<1> QED BY <1>1, <1>2, Invariant, PTL DEF Spec

LEMMA ExitIs ==
  /\ ExitCode("OK") = 0 /\ ExitCode("WARN") = 1 /\ ExitCode("FAIL") = 2 /\ ExitCode("UNKNOWN") = 3
  /\ \A v \in Verdicts : ExitCode(v) = 2 => v = "FAIL"
BY DEF ExitCode, Verdicts

LEMMA VerdictTyped == \A levels, unknown : VerdictOf(levels, unknown) \in Verdicts
BY DEF VerdictOf, Verdicts

\* Where no other host has the same directories, space says FAIL only of disks
\* of the server it is connected to (InstDisk knows the host by its directory).
THEOREM DisksOfTheServer == TRUE \notin Mirrors => (Spec => []TheServersDisks)
<1>1. IInv /\ ~mirrored => TheServersDisks
  <2> SUFFICES ASSUME IInv, ~mirrored, pos = Done, cmd = "space", exit = ExitCode("FAIL")
               PROVE  \E f \in touched : f.id = "space.disk_full"
    BY DEF TheServersDisks
  <2>1. JudgedFairly /\ (Judgement.verdict = "FAIL" => \E f \in touched : f.id = "space.disk_full")
    BY SpaceJudged
  <2>2. Judgement.verdict \in Verdicts
    BY <2>1, VerdictTyped DEF JudgedFairly
  <2>3. ExitCode(Judgement.verdict) = 2
    BY ExitIs DEF IInv, Stages
  <2> QED BY <2>1, <2>2, <2>3, ExitIs
<1> QED BY <1>1, Invariant, NeverMirrored, PTL

-----------------------------------------------------------------------------
(* The promise *)

\* The rule of every command is fair to what there was.
LEMMA AllFair ==
  ASSUME IInv, ~mirrored, pos = Done
  PROVE  JudgedFairly
<1>1. cmd \in {"status", "repl", "slots", "space", "archive", "freeze", "vacuum"} /\ pos # 0
  <2>1. cmd \in Commands
    BY TypesAre DEF IInv, ProgramOK
  <2> QED BY <2>1, CommandsAre, PlacesAre
<1> QED BY <1>1, StatusFair, ReplFair, SlotsFair, SpaceJudged, ArchiveFair, FreezeFair, VacuumFair

\* What the abstract state is: before Identify all may last that can be found.
Standing == IF pos = 0 THEN Findings ELSE held \ Doubtful
Blinded == pos = Done /\ Blind

HonestNow ==
  \/ exit = 0 /\ Standing = {} /\ ~Blinded
  \/ /\ exit = 1
     /\ \E f \in Appeared : f.level = "WARN"
     /\ (\E f \in Standing : f.level = "FAIL") => Blinded
  \/ exit = 2 /\ \E f \in Appeared : f.level = "FAIL"
  \/ exit = 3 /\ Blinded

LEMMA ExitHonest == IInv /\ ~mirrored /\ pos = Done => HonestNow
<1> SUFFICES ASSUME IInv, ~mirrored, pos = Done PROVE HonestNow
  OBVIOUS
<1>1. PICK levels, unknown : Judgement.verdict = VerdictOf(levels, unknown) /\ Fair(levels, unknown)
  BY AllFair DEF JudgedFairly
<1>2. HonestVerdict(Judgement.verdict)
  BY <1>1, FairIsHonest
<1>3. exit = ExitCode(Judgement.verdict)
  BY DEF IInv, Stages
<1>4. pos # 0
  <2>1. cmd \in Commands
    BY TypesAre DEF IInv, ProgramOK
  <2> QED BY <2>1, PlacesAre
<1>5. Standing = Lasting /\ (Blinded <=> Blind)
  BY <1>4 DEF Standing, Lasting, Blinded
<1> QED BY <1>2, <1>3, <1>5, ExitIs DEF HonestVerdict, HonestNow

\* What has been put together from two probes stays so.
LEMMA PairsGrow ==
  ASSUME glimpses \subseteq glimpses'
  PROVE  Doubtful \subseteq Doubtful' /\ Pieced \subseteq Pieced'
<1>1. Findings' = Findings
  BY DEF Findings, Finding
<1>2. ASSUME NEW f PROVE \A b \in BOOLEAN : b \in Pairs(f) => b \in Pairs(f)'
  <2>1. CASE f.id = "repl.sync_short"
    BY <2>1 DEF Pairs
  <2>2. CASE f.id = "vacuum.table_disabled"
    BY <2>2 DEF Pairs, Past
  <2>3. CASE f.id \notin {"repl.sync_short", "vacuum.table_disabled"}
    <3>1. Pairs(f) = {}
      BY <2>3 DEF Pairs
    <3> QED BY <3>1
  <2> QED BY <2>1, <2>2, <2>3
<1> QED BY <1>1, <1>2 DEF Doubtful, Pieced

LEMMA PairsStill == UNCHANGED glimpses => Doubtful' = Doubtful /\ Pieced' = Pieced
BY DEF Doubtful, Pieced, Pairs, Past, Findings, Finding

LEMMA NothingPieced == glimpses = {} => Pieced = {}
<1>1. ASSUME glimpses = {}, NEW f PROVE Pairs(f) = {}
  <2>1. CASE f.id = "repl.sync_short"
    BY <1>1, <2>1, PairsAre
  <2>2. CASE f.id = "vacuum.table_disabled"
    BY <1>1, <2>2, PairsAre
  <2>3. CASE f.id \notin {"repl.sync_short", "vacuum.table_disabled"}
    BY <2>3 DEF Pairs
  <2> QED BY <2>1, <2>2, <2>3
<1> QED BY <1>1 DEF Pieced

\* What lasts shrinks, what appeared grows, and only a run that goes on steps.
LEMMA Ages ==
  ASSUME IInv, Next
  PROVE  /\ Standing' \subseteq Standing /\ Appeared \subseteq Appeared'
         /\ exit = Running /\ (pos' # Done' => exit' = Running)
<1>1. TypeOK /\ Stages /\ Noticed /\ cmd \in Commands /\ held \subseteq Findings
  BY TypesAre DEF IInv, ProgramOK
<1>2. /\ Reporting \in Nat /\ Done = Reporting + 1 /\ Reporting > 1
      /\ (Looking <=> pos \in 1..(Reporting - 1))
  BY <1>1, PlacesAre
<1>3. Done' = Done
  BY <1>1, Kinds DEF Done
<1>4. CASE Instance
  <2>1. /\ UNCHANGED <<pos, exit>> /\ pos # 0 /\ pos # Done
        /\ held' \subseteq held /\ touched \subseteq touched' /\ glimpses \subseteq glimpses'
    BY <1>2, <1>4 DEF Instance, Remember, program
  <2> QED BY <1>1, <1>3, <2>1, PairsGrow DEF Standing, Appeared, Stages
<1>5. CASE Identify
  <2>1. pos = 0 /\ pos' = 1 /\ held' = Troubles /\ UNCHANGED exit
    BY <1>5 DEF Identify
  <2>2. touched = {} /\ glimpses = {} /\ exit = Running
    BY <1>1, <1>2, <2>1 DEF Stages
  <2> QED BY <2>1, <2>2, TroublesTyped, NothingPieced DEF Standing, Appeared
<1>6. CASE Probe \/ Report
  <2>1. /\ UNCHANGED history /\ pos # 0 /\ pos # Done /\ pos' # 0
        /\ (pos' # Done => UNCHANGED exit)
    BY <1>2, <1>6 DEF Probe, Report
  <2>2. UNCHANGED <<held, touched, glimpses>>
    BY <2>1 DEF history
  <2> QED BY <1>1, <1>3, <2>1, <2>2, PairsStill DEF Standing, Appeared, Stages
<1> QED BY <1>4, <1>5, <1>6 DEF Next

LEMMA RefineInit == Init => Promise!Init
<1> SUFFICES ASSUME Init PROVE Promise!Init
  OBVIOUS
<1>1. pos = 0 /\ exit = Running /\ touched = {} /\ glimpses = {}
  BY DEF Init
<1>2. Pieced = {}
  BY <1>1, NothingPieced
<1>3. cmd \in Commands
  BY DEF Init
<1>4. pos # Done
  BY <1>1, <1>3, PlacesAre
<1> QED BY <1>1, <1>2, <1>4 DEF Promise!Init

LEMMA RefineNext ==
  IInv /\ IInv' /\ ~mirrored' /\ [Next]_vars => [Promise!Next]_Promise!vars
<1> SUFFICES ASSUME IInv, IInv', ~mirrored', [Next]_vars PROVE [Promise!Next]_Promise!vars
  OBVIOUS
<1>1. pos' = Done' => HonestNow'
  <2>1. (IInv /\ ~mirrored /\ pos = Done => HonestNow)'
    BY ExitHonest, PTL
  <2> QED BY <2>1
<1>2. CASE UNCHANGED vars
  <2>1. UNCHANGED <<cmd, pos, role, saw, exit, held, touched, glimpses>>
    BY <1>2 DEF vars, program, history
  <2>2. Blind' <=> Blind
    BY <2>1 DEF Blind, MaskedRow, Unread, WaitsForRead
  <2>3. Done' = Done /\ Findings' = Findings
    BY <2>1 DEF Done, Findings, Finding
  <2>4. (pos = Done /\ Blind)' = (pos = Done /\ Blind)
    BY <2>1, <2>2, <2>3
  <2> QED BY <2>1, <2>3, <2>4, PairsStill DEF Promise!vars
<1>3. CASE Next
  <2>1. /\ Standing' \subseteq Standing /\ Appeared \subseteq Appeared'
        /\ exit = Running /\ (pos' # Done' => exit' = Running)
    BY <1>3, Ages
  <2>2. Blinded' \in BOOLEAN
    BY DEF Blinded
  <2>3. CASE pos' # Done'
    BY <2>1, <2>2, <2>3 DEF Promise!Next, Promise!Live, Standing, Appeared, Blinded
  <2>4. CASE pos' = Done'
    <3>1. Promise!Honest(exit')
      BY <1>1, <2>4 DEF HonestNow, Promise!Honest, Standing, Appeared, Blinded
    <3> QED BY <2>1, <2>2, <3>1 DEF Promise!Next, Promise!Answer, Standing, Appeared, Blinded
  <2> QED BY <2>3, <2>4
<1> QED BY <1>2, <1>3

\* Between servers that share no directories the exit codes of the commands
\* are as honest as HonestAnswer asks, whatever the instance does between the
\* probes.  That the hypothesis is needed is shown by the run tunnel.
THEOREM NodeHonest == TRUE \notin Mirrors => (Spec => Answers)
BY Invariant, NeverMirrored, RefineInit, RefineNext, PTL DEF Spec, Answers, Promise!Spec
=============================================================================
