------------------------------ MODULE MCCodecs ------------------------------
(***************************************************************************)
(* The leaves of the gateway that only compute, side by side for TLC: the  *)
(* link codec, HMAC-SHA-256 and the reading of HTTP answers.  They share   *)
(* nothing, so a behaviour runs one of them before the others have begun.  *)
(***************************************************************************)
EXTENDS LinkCodec, HmacSha256, HttpAnswer

Ext == INSTANCE SequencesExt

SomeBytes == { {}, {0}, {0, 5, 7} }

SomePayloads == UNION { [1 .. n -> SomeBytes] : n \in 0 .. 2 }

SomeCommands == { {5}, {0, 4} }

SomeSeqNums == { << {0}, {} >>, << 0 .. 7, {1} >> }

\* Single bits, all bits, and the two halves of the burst that passes.
SomeNoise == { {0}, {7}, {0, 3, 7}, {0, 5, 7}, 0 .. 7 }

\* A stray byte, the start of a next frame, an all-zero tail.
SomeTails == { <<{}>>, <<SOF, VERSION>>, << {}, {} >> }

\* Around the ends of a block and of the room for the length.
Boundaries == {0, 1, 55, 56, 63, 64, 65, 119, 120}

Open(f) == <<Quote, Name(f), Quote, Colon>>

Member(f, n) == Open(f) \o <<Quote>> \o Value(f, n) \o <<Quote, Other>>

NullMember(f) == Open(f) \o <<Other, Other>>

\* Fields in both orders, each with a short value, a long one or none.
Body(fields, cut, kind) ==
    Ext!FlattenSeq([i \in 1 .. Len(fields) |->
        IF i # cut THEN Member(fields[i], 1 + (i % 2))
        ELSE CASE kind = "long" -> Member(fields[i], 3)
               [] kind = "null" -> NullMember(fields[i])
               [] kind = "empty" -> Member(fields[i], 0)
               [] OTHER -> <<>>])

Bodies(fields) ==
    { Body(fs, cut, kind) : fs \in {fields, Ext!Reverse(fields)}, cut \in 1 .. Len(fields),
                            kind \in {"long", "null", "empty", "missing"} }

SomeAnswers == [bootstrap |-> Bodies(Wanted.bootstrap), secret |-> Bodies(Wanted.secret)]

SmallFields == [f \in Names |-> 3]

Codecs == LinkInit /\ HmacInit /\ AnswerInit

CodecsNext ==
    \/ HmacInit /\ AnswerInit /\ LinkNext /\ UNCHANGED <<hmacVars, answerVars>>
    \/ LinkInit /\ AnswerInit /\ HmacNext /\ UNCHANGED <<linkVars, answerVars>>
    \/ LinkInit /\ HmacInit /\ AnswerNext /\ UNCHANGED <<linkVars, hmacVars>>

CodecsSpec == Codecs /\ [][CodecsNext]_<<linkVars, hmacVars, answerVars>>
=============================================================================
