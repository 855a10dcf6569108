-------------------------- MODULE HttpAnswerProofs --------------------------
(***************************************************************************)
(* What the client keeps of an answer, for every answer the backend may    *)
(* send, every way it is cut and every size of buffer.  The body is at all *)
(* times a prefix of the answer, and the first place a search finds in a   *)
(* prefix is the first place it finds in the whole.                        *)
(***************************************************************************)
EXTENDS HttpAnswer, SequenceTheorems, TLAPS

PrefixOf(s, a) ==
    Len(s) <= Len(a) /\ \A i \in 1 .. Len(s) : s[i] = a[i]

-----------------------------------------------------------------------------
(* The search in a prefix *)

LEMMA NextSignInPrefix ==
    ASSUME NEW s \in Seq(Signs), NEW a \in Seq(Signs), PrefixOf(s, a),
           NEW x, NEW from \in Nat \ {0}
    PROVE  NextSign(s, x, from) \subseteq NextSign(a, x, from)
<1>1. Len(s) \in Nat /\ Len(a) \in Nat
  OBVIOUS
<1> SUFFICES ASSUME NEW i \in NextSign(s, x, from) PROVE i \in NextSign(a, x, from)
  OBVIOUS
<1>2. /\ i \in from .. Len(s) /\ s[i] = x
      /\ \A j \in from .. Len(s) : s[j] = x => i <= j
  BY DEF NextSign, FirstOf
<1>3. i \in from .. Len(a) /\ a[i] = x
  BY <1>1, <1>2 DEF PrefixOf
<1>4. ASSUME NEW j \in from .. Len(a), a[j] = x PROVE i <= j
  <2>1. CASE j <= Len(s)
    BY <2>1, <1>1, <1>2, <1>4 DEF PrefixOf
  <2>2. CASE j > Len(s)
    BY <2>2, <1>1, <1>2
  <2> QED BY <2>1, <2>2, <1>1
<1> QED BY <1>3, <1>4 DEF NextSign, FirstOf

LEMMA FindKeyInPrefix ==
    ASSUME NEW s \in Seq(Signs), NEW a \in Seq(Signs), PrefixOf(s, a), NEW f
    PROVE  FindKey(s, f) \subseteq FindKey(a, f)
<1> DEFINE At(b, i) == b[i] = Quote /\ b[i + 1] = Name(f) /\ b[i + 2] = Quote
<1>1. Len(s) \in Nat /\ Len(a) \in Nat
  OBVIOUS
<1>2. ASSUME NEW i \in 1 .. Len(s) - 2 PROVE i \in 1 .. Len(a) - 2 /\ (At(s, i) <=> At(a, i))
  BY <1>1, <1>2 DEF PrefixOf
<1> SUFFICES ASSUME NEW i \in FindKey(s, f) PROVE i \in FindKey(a, f)
  OBVIOUS
<1>3. /\ i \in 1 .. Len(s) - 2 /\ At(s, i)
      /\ \A j \in 1 .. Len(s) - 2 : At(s, j) => i <= j
  BY DEF FindKey, FirstOf
<1>4. ASSUME NEW j \in 1 .. Len(a) - 2, At(a, j) PROVE i <= j
  <2>1. CASE j <= Len(s) - 2
    <3>1. j \in 1 .. Len(s) - 2
      BY <2>1, <1>1
    <3> QED BY <3>1, <1>2, <1>3, <1>4
  <2>2. CASE j > Len(s) - 2
    BY <2>2, <1>1, <1>3
  <2> QED BY <2>1, <2>2, <1>1
<1>5. i \in 1 .. Len(a) - 2 /\ At(a, i)
  BY <1>2, <1>3
<1> QED BY <1>4, <1>5 DEF FindKey, FirstOf

LEMMA BeginsInPrefix ==
    ASSUME NEW s \in Seq(Signs), NEW a \in Seq(Signs), PrefixOf(s, a), NEW f
    PROVE  Begins(s, f) \subseteq Begins(a, f) /\ Begins(s, f) \subseteq Nat \ {0}
<1>1. Len(s) \in Nat /\ Len(a) \in Nat
  OBVIOUS
<1> SUFFICES ASSUME NEW b \in Begins(s, f) PROVE b \in Begins(a, f) /\ b \in Nat \ {0}
  OBVIOUS
<1>2. PICK c : /\ \E i \in FindKey(s, f) : c \in NextSign(s, Colon, i)
               /\ c < Len(s) /\ s[c + 1] = Quote /\ b = c + 2
  BY DEF Begins
<1>3. PICK i \in FindKey(s, f) : c \in NextSign(s, Colon, i)
  BY <1>2
<1>4. i \in 1 .. Len(s) - 2
  BY DEF FindKey, FirstOf
<1>5. c \in i .. Len(s)
  BY <1>3 DEF NextSign, FirstOf
<1>6. c < Len(a) /\ a[c + 1] = Quote
  BY <1>1, <1>2, <1>4, <1>5 DEF PrefixOf
<1>7. i \in FindKey(a, f) /\ c \in NextSign(a, Colon, i)
  BY <1>1, <1>3, <1>4, FindKeyInPrefix, NextSignInPrefix
<1>8. b = c + 2 /\ b \in Nat \ {0}
  BY <1>1, <1>2, <1>4, <1>5
<1> QED BY <1>6, <1>7, <1>8, Zenon DEF Begins

\* A string that is complete in a prefix is the string of the whole answer.
LEMMA StringsInPrefix ==
    ASSUME NEW s \in Seq(Signs), NEW a \in Seq(Signs), PrefixOf(s, a), NEW f
    PROVE  Strings(s, f) \subseteq Strings(a, f)
<1>1. Len(s) \in Nat /\ Len(a) \in Nat
  OBVIOUS
<1> SUFFICES ASSUME NEW v \in Strings(s, f) PROVE v \in Strings(a, f)
  OBVIOUS
<1> DEFINE Ending(t, b) == {SubSeq(t, b, q - 1) : q \in NextSign(t, Quote, b)}
<1>2. PICK b \in Begins(s, f) : v \in Ending(s, b)
  <2>1. v \in UNION {Ending(s, b) : b \in Begins(s, f)}
    BY Zenon DEF Strings
  <2> HIDE DEF Ending
  <2> QED BY <2>1
<1>3. PICK q \in NextSign(s, Quote, b) : v = SubSeq(s, b, q - 1)
  BY <1>2
<1>4. b \in Begins(a, f) /\ b \in Nat \ {0}
  BY BeginsInPrefix
<1>5. q \in NextSign(a, Quote, b)
  BY <1>4, NextSignInPrefix
<1>6. q \in b .. Len(s)
  BY <1>3 DEF NextSign, FirstOf
<1>7. SubSeq(s, b, q - 1) = SubSeq(a, b, q - 1)
  <2>1. \A i \in b .. q - 1 : s[i] \in Signs /\ a[i] \in Signs /\ s[i] = a[i]
    BY <1>1, <1>4, <1>6, ElementOfSeq DEF PrefixOf
  <2>2. b \in Int /\ q - 1 \in Int
    BY <1>1, <1>4, <1>6
  <2>3. /\ SubSeq(s, b, q - 1) \in Seq(Signs)
        /\ Len(SubSeq(s, b, q - 1)) = IF b <= q - 1 THEN q - 1 - b + 1 ELSE 0
        /\ \A i \in 1 .. q - 1 - b + 1 : SubSeq(s, b, q - 1)[i] = s[b + i - 1]
    BY <2>1, <2>2, SubSeqProperties
  <2>4. /\ SubSeq(a, b, q - 1) \in Seq(Signs)
        /\ Len(SubSeq(a, b, q - 1)) = IF b <= q - 1 THEN q - 1 - b + 1 ELSE 0
        /\ \A i \in 1 .. q - 1 - b + 1 : SubSeq(a, b, q - 1)[i] = a[b + i - 1]
    BY <2>1, <2>2, SubSeqProperties
  <2>5. \A i \in 1 .. Len(SubSeq(s, b, q - 1)) :
            SubSeq(s, b, q - 1)[i] = SubSeq(a, b, q - 1)[i]
    BY <2>1, <2>2, <2>3, <2>4
  <2> QED BY <2>3, <2>4, <2>5, SeqEqual
<1>8. v \in Ending(a, b)
  BY <1>3, <1>5, <1>7
<1>9. v \in UNION {Ending(a, d) : d \in Begins(a, f)}
  <2> HIDE DEF Ending
  <2> QED BY <1>4, <1>8
<1> QED BY <1>9, Zenon DEF Strings
-----------------------------------------------------------------------------
(* The inductive invariant *)

\* What is still to come follows what is in the body, until the buffer is full.
Follows(a) ==
    \/ Len(body) = BodySize - 1
    \/ /\ Len(body) + Len(toCome) = Len(a)
       /\ \A i \in 1 .. Len(toCome) : toCome[i] = a[Len(body) + i]

Gathered ==
    \E a \in Answers[call] : PrefixOf(body, a) /\ (next = 0 => Follows(a))

AnswerInv ==
    /\ call \in {"none", "bootstrap", "secret"}
    /\ body \in Seq(Signs) /\ toCome \in Seq(Signs)
    /\ Len(body) < BodySize
    /\ call # "none" => next \in 0 .. Len(Wanted[call]) /\ Gathered
    /\ resolved = [f \in Names |-> resolved[f]]
    /\ WholeValues

LEMMA WantedAreNames ==
    ASSUME NEW kind \in {"bootstrap", "secret"}
    PROVE  /\ Len(Wanted[kind]) \in Nat \ {0}
           /\ \A n \in 1 .. Len(Wanted[kind]) : Wanted[kind][n] \in Names
<1>1. CASE kind = "bootstrap"
  BY <1>1 DEF Wanted, Names, Ids
<1>2. CASE kind = "secret"
  BY <1>2 DEF Wanted, Names, Ids
<1> QED BY <1>1, <1>2

LEMMA ShortValueWhole == \A f : IsWhole(f, Value(f, 1)) /\ IsWhole(f, <<>>)
<1> SUFFICES ASSUME NEW f PROVE IsWhole(f, Value(f, 1)) /\ IsWhole(f, <<>>)
  OBVIOUS
<1>1. Len(Value(f, 1)) = 1 /\ \A i \in 1 .. 1 :
          Value(f, 1)[i] = [sign |-> "value", of |-> f, at |-> i, last |-> i = 1]
  BY DEF Value
<1> QED BY <1>1 DEF IsWhole

LEMMA AnswerInitInv == AnswerInit => AnswerInv
<1> SUFFICES ASSUME AnswerInit PROVE AnswerInv
  OBVIOUS
<1>1. WholeValues
  BY ShortValueWhole DEF AnswerInit, WholeValues
<1>2. resolved = [f \in Names |-> resolved[f]]
  BY DEF AnswerInit
<1> QED BY <1>1, <1>2, AnswerAssumption DEF AnswerInit, AnswerInv

LEMMA PostInv ==
    ASSUME AnswerInv, NEW kind \in {"bootstrap", "secret"}, Post(kind) PROVE AnswerInv'
<1> USE DEF Post
<1>1. PICK a \in Answers[kind] : toCome' = a
  OBVIOUS
<1>2. a \in Seq(Signs)
  BY AnswerAssumption
<1>3. Gathered'
  <2>1. PrefixOf(body', a)
    BY <1>2 DEF PrefixOf
  <2>2. Follows(a)'
    BY <1>1, <1>2 DEF Follows
  <2> QED BY <2>1, <2>2 DEF Gathered
<1>4. next' \in 0 .. Len(Wanted[call'])
  BY WantedAreNames
<1>5. Len(body') < BodySize /\ body' \in Seq(Signs)
  BY AnswerAssumption
<1> QED BY <1>1, <1>2, <1>3, <1>4, <1>5 DEF AnswerInv, WholeValues

LEMMA FragmentInv ==
    ASSUME AnswerInv, NEW n \in 1 .. Len(toCome), Fragment(n) PROVE AnswerInv'
<1> DEFINE room == BodySize - 1 - Len(body)
           taken == IF Len(body) + n >= BodySize THEN room ELSE n
<1>1. /\ body \in Seq(Signs) /\ toCome \in Seq(Signs)
      /\ Len(body) \in Nat /\ Len(toCome) \in Nat /\ BodySize \in Nat /\ Len(body) < BodySize
  BY AnswerAssumption DEF AnswerInv
<1>2. taken \in 0 .. n /\ (taken = n \/ Len(body) + taken = BodySize - 1)
      /\ Len(body) + taken < BodySize
  BY <1>1
<1>3. \A i \in 1 .. Len(toCome) : toCome[i] \in Signs
  BY <1>1, ElementOfSeq
<1> DEFINE came == SubSeq(toCome, 1, taken)
           left == SubSeq(toCome, n + 1, Len(toCome))
<1>4. /\ came \in Seq(Signs) /\ Len(came) = taken
      /\ \A i \in 1 .. taken : came[i] = toCome[i]
  <2>1. 1 \in Int /\ taken \in Int /\ \A i \in 1 .. taken : toCome[i] \in Signs
    BY <1>1, <1>2, <1>3
  <2> HIDE DEF taken
  <2>2. /\ came \in Seq(Signs)
        /\ Len(came) = IF 1 <= taken THEN taken - 1 + 1 ELSE 0
        /\ \A i \in 1 .. taken - 1 + 1 : came[i] = toCome[1 + i - 1]
    BY <2>1, SubSeqProperties
  <2> QED BY <1>2, <2>2
<1>5. /\ left \in Seq(Signs) /\ Len(left) = Len(toCome) - n
      /\ \A i \in 1 .. Len(toCome) - n : left[i] = toCome[n + i]
  <2>1. n + 1 \in Int /\ Len(toCome) \in Int
        /\ \A i \in n + 1 .. Len(toCome) : toCome[i] \in Signs
    BY <1>1, <1>3
  <2>2. /\ left \in Seq(Signs)
        /\ Len(left) = IF n + 1 <= Len(toCome) THEN Len(toCome) - (n + 1) + 1 ELSE 0
        /\ \A i \in 1 .. Len(toCome) - (n + 1) + 1 : left[i] = toCome[n + 1 + i - 1]
    BY <2>1, SubSeqProperties
  <2>3. /\ Len(left) = Len(toCome) - n
        /\ Len(toCome) - (n + 1) + 1 = Len(toCome) - n
    BY <1>1, <1>3, <2>2
  <2>4. \A i \in 1 .. Len(toCome) - n : n + 1 + i - 1 = n + i
    BY <1>1, <1>3
  <2> QED BY <2>2, <2>3, <2>4
<1>6. body' = body \o came /\ toCome' = left
      /\ call' = call /\ next' = 0 /\ next = 0 /\ call # "none" /\ resolved' = resolved
  BY Zenon DEF Fragment
<1> HIDE DEF taken, came, left
<1>7. /\ body' \in Seq(Signs) /\ Len(body') = Len(body) + taken
      /\ \A i \in 1 .. Len(body) + taken :
            body'[i] = IF i <= Len(body) THEN body[i] ELSE came[i - Len(body)]
  <2>1. /\ body \o came \in Seq(Signs) /\ Len(body \o came) = Len(body) + Len(came)
        /\ \A i \in 1 .. Len(body) + Len(came) :
              (body \o came)[i] = IF i <= Len(body) THEN body[i] ELSE came[i - Len(body)]
    BY <1>1, <1>4, ConcatProperties
  <2>2. Len(came) = taken
    BY <1>4
  <2> QED BY <2>1, <2>2, <1>6, Zenon
<1>8. PICK a \in Answers[call] : PrefixOf(body, a) /\ Follows(a)
  BY <1>6 DEF AnswerInv, Gathered
<1>9. a \in Seq(Signs) /\ Len(a) \in Nat
  BY <1>6, <1>8, AnswerAssumption DEF AnswerInv
<1>10. PrefixOf(body', a) /\ Follows(a)'
  <2>1. CASE Len(body) = BodySize - 1
    BY <2>1, <1>1, <1>2, <1>7, <1>8 DEF PrefixOf, Follows
  <2>2. CASE /\ Len(body) + Len(toCome) = Len(a)
             /\ \A i \in 1 .. Len(toCome) : toCome[i] = a[Len(body) + i]
    <3>1. Len(body') <= Len(a)
      BY <2>2, <1>1, <1>2, <1>7
    <3>2. ASSUME NEW i \in 1 .. Len(body') PROVE body'[i] = a[i]
      <4>1. CASE i <= Len(body)
        BY <4>1, <1>1, <1>2, <1>7, <1>8 DEF PrefixOf
      <4>2. CASE i > Len(body)
        <5>1. i - Len(body) \in 1 .. taken /\ i - Len(body) \in 1 .. Len(toCome)
          BY <4>2, <1>1, <1>2, <1>7
        <5>2. body'[i] = toCome[i - Len(body)]
          BY <5>1, <4>2, <1>1, <1>2, <1>4, <1>7
        <5> QED BY <5>1, <5>2, <2>2, <1>1
      <4> QED BY <4>1, <4>2, <1>1, <1>7
    <3>3. CASE Len(body) + taken = BodySize - 1
      BY <3>1, <3>2, <3>3, <1>7 DEF PrefixOf, Follows
    <3>4. CASE taken = n
      <4>1. Len(body') + Len(toCome') = Len(a)
        <5>1. Len(body') = Len(body) + n /\ Len(toCome') = Len(toCome) - n /\ n \in Nat
          BY <3>4, <1>1, <1>5, <1>6, <1>7
        <5>2. Len(body) \in Nat /\ Len(toCome) \in Nat /\ Len(body) + Len(toCome) = Len(a)
          BY <1>1, <2>2
        <5> QED BY <5>1, <5>2
      <4>2. ASSUME NEW i \in 1 .. Len(toCome') PROVE toCome'[i] = a[Len(body') + i]
        <5>1. toCome'[i] = toCome[n + i] /\ n + i \in 1 .. Len(toCome)
          BY <1>1, <1>5, <1>6
        <5>2. Len(body') + i = Len(body) + (n + i)
          BY <3>4, <1>1, <1>5, <1>6, <1>7
        <5> QED BY <5>1, <5>2, <2>2
      <4> QED BY <3>1, <3>2, <4>1, <4>2 DEF PrefixOf, Follows
    <3> QED BY <3>3, <3>4, <1>2
  <2> QED BY <2>1, <2>2, <1>8 DEF Follows
<1>11. Gathered'
  BY <1>6, <1>8, <1>10 DEF Gathered
<1>12. next' \in 0 .. Len(Wanted[call'])
  BY <1>6, WantedAreNames DEF AnswerInv
<1> QED BY <1>1, <1>2, <1>5, <1>6, <1>7, <1>11, <1>12 DEF AnswerInv, WholeValues

LEMMA AnswerOverInv == ASSUME AnswerInv, AnswerOver PROVE AnswerInv'
<1> USE DEF AnswerOver
<1>1. toCome' \in Seq(Signs) /\ resolved' = resolved
  BY EmptySeq
<1>2. CASE call' = "none" /\ body' = <<>>
  BY <1>1, <1>2, AnswerAssumption DEF AnswerInv, WholeValues
<1>3. CASE next' = 1 /\ UNCHANGED <<call, body>>
  <2>1. next' \in 0 .. Len(Wanted[call'])
    BY <1>3, WantedAreNames DEF AnswerInv
  <2>2. Gathered'
    BY <1>3 DEF AnswerInv, Gathered, PrefixOf
  <2> QED BY <1>1, <1>3, <2>1, <2>2 DEF AnswerInv, WholeValues
<1> QED BY <1>2, <1>3

LEMMA ReadFieldInv == ASSUME AnswerInv, ReadField PROVE AnswerInv'
<1>1. call \in {"bootstrap", "secret"} /\ next \in 1 .. Len(Wanted[call])
  BY WantedAreNames DEF AnswerInv, ReadField
<1> DEFINE f == Wanted[call][next]
<1>2. f \in Names
  BY <1>1, WantedAreNames
<1>3. PICK a \in Answers[call] : PrefixOf(body, a)
  BY <1>1 DEF AnswerInv, Gathered
<1>4. \A v \in GetString(f) : IsWhole(f, v)
  <2>1. a \in Seq(Signs) /\ \A v \in Strings(a, f) : IsWhole(f, v)
    BY <1>1, <1>3, AnswerAssumption
  <2>2. Strings(body, f) \subseteq Strings(a, f)
    BY <1>3, <2>1, StringsInPrefix DEF AnswerInv
  <2> QED BY <2>1, <2>2 DEF GetString
<1>5. \A v \in FieldOf(f) : IsWhole(f, v)
  BY <1>2, <1>4, ShortValueWhole DEF FieldOf, AnswerInv, WholeValues
<1>6. resolved' = [g \in Names |-> resolved'[g]] /\ WholeValues'
  <2>1. CASE resolved' = resolved
    BY <2>1 DEF AnswerInv, WholeValues
  <2>2. CASE \E v \in FieldOf(f) : resolved' = [resolved EXCEPT ![f] = v]
    <3>1. PICK v \in FieldOf(f) : resolved' = [resolved EXCEPT ![f] = v]
      BY <2>2
    <3>2. resolved' = [g \in Names |-> IF g = f THEN v ELSE resolved[g]]
      BY <3>1, <1>2 DEF AnswerInv
    <3>3. WholeValues'
      BY <3>2, <1>5 DEF AnswerInv, WholeValues
    <3> QED BY <3>2, <3>3
  <2> QED BY <2>1, <2>2 DEF ReadField
<1>7. toCome' = toCome /\ \/ call' = "none" /\ body' = <<>>
                          \/ /\ call' = call /\ body' = body
                             /\ next < Len(Wanted[call]) /\ next' = next + 1
  BY DEF ReadField
<1>8. CASE call' = "none" /\ body' = <<>>
  BY <1>6, <1>7, <1>8, AnswerAssumption DEF AnswerInv
<1>9. CASE /\ call' = call /\ body' = body
           /\ next < Len(Wanted[call]) /\ next' = next + 1
  <2>1. Len(Wanted[call]) \in Nat
    BY <1>1, WantedAreNames
  <2>2. next' \in 0 .. Len(Wanted[call']) /\ next' # 0
    BY <1>1, <1>9, <2>1
  <2>3. Gathered'
    BY <1>3, <1>9, <2>2 DEF Gathered
  <2> QED BY <1>6, <1>7, <1>9, <2>2, <2>3 DEF AnswerInv
<1> QED BY <1>7, <1>8, <1>9

\* Whatever answer the backend sends, wherever it, the network or the buffer cuts
\* it, and in whatever order it has its fields: gw_json_get_string never hands the
\* client a part of a value, or the value of another field.
THEOREM FieldsWhole == AnswerSpec => []WholeValues
<1>1. AnswerInv /\ [AnswerNext]_answerVars => AnswerInv'
  <2> SUFFICES ASSUME AnswerInv, [AnswerNext]_answerVars PROVE AnswerInv'
    OBVIOUS
  <2>1. CASE AnswerNext
    BY <2>1, PostInv, FragmentInv, AnswerOverInv, ReadFieldInv DEF AnswerNext
  <2>2. CASE UNCHANGED answerVars
    BY <2>2 DEF answerVars, AnswerInv, WholeValues, Gathered, Follows, PrefixOf
  <2> QED BY <2>1, <2>2
<1>2. AnswerInv => WholeValues
  BY DEF AnswerInv
<1> QED BY AnswerInitInv, <1>1, <1>2, PTL DEF AnswerSpec
=============================================================================
