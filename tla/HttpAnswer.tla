----------------------------- MODULE HttpAnswer -----------------------------
(***************************************************************************)
(* How gw_cloud_zephyr.c gets fields out of an answer: gw_http_response_cb *)
(* gathers the body, fragment by fragment, in a buffer of fixed size, and  *)
(* gw_json_get_string looks in it for the first place that has the field's *)
(* name in quotes.  An answer is a sequence of signs; a name, and each     *)
(* piece of a value, is one sign, and blanks are left out.  The backend,   *)
(* or the end of the buffer, may cut it anywhere.                          *)
(***************************************************************************)
EXTENDS Naturals, Sequences

CONSTANTS
    BodySize,     \* GW_CLOUD_MAX_HTTP_BODY
    FieldSize,    \* of each resolved_* array, and of status_buf
    Answers,      \* what the backend may send to either exchange
    Configured    \* which ids the configuration has

\* In the order gw_cloud_do_bootstrap and gw_cloud_do_secret read them.
Wanted == [bootstrap |-> <<"status", "device_id", "hardware_id">>,
           secret |-> <<"device_secret", "mqtt_username", "broker", "topic_prefix">>]

Ids == {"device_id", "hardware_id"}

Names == Ids \cup {"status", "device_secret", "mqtt_username", "broker", "topic_prefix"}

Quote == [sign |-> "quote"]
Colon == [sign |-> "colon"]
Other == [sign |-> "other"]
Name(f) == [sign |-> "name", of |-> f]

\* The n pieces of a value of f; the last one is known for it.
Value(f, n) ==
    [i \in 1 .. n |-> [sign |-> "value", of |-> f, at |-> i, last |-> i = n]]

Signs == {Quote, Colon, Other} \cup {Name(f) : f \in Names}
            \cup [sign : {"value"}, of : Names, at : Nat, last : BOOLEAN]

IsWhole(f, v) ==
    \A i \in 1 .. Len(v) :
        v[i] = [sign |-> "value", of |-> f, at |-> i, last |-> i = Len(v)]

-----------------------------------------------------------------------------
(* The search gw_json_get_string makes in a body s *)

FirstOf(S) == {i \in S : \A j \in S : i <= j}

\* strchr
NextSign(s, x, from) == FirstOf({i \in from .. Len(s) : s[i] = x})

\* gw_json_find_key: the name, between quotes.
FindKey(s, f) ==
    FirstOf({i \in 1 .. Len(s) - 2 :
                s[i] = Quote /\ s[i + 1] = Name(f) /\ s[i + 2] = Quote})

\* Where the string begins: behind a quote, next to the colon that follows.
Begins(s, f) ==
    {c + 2 : c \in {c \in UNION {NextSign(s, Colon, i) : i \in FindKey(s, f)} :
                        c < Len(s) /\ s[c + 1] = Quote}}

\* Up to the next quote; none where there is no such place.
Strings(s, f) ==
    UNION { {SubSeq(s, b, q - 1) : q \in NextSign(s, Quote, b)} : b \in Begins(s, f) }

\* A complete answer has the name of a field nowhere but before its value, and no
\* quote in a value.
ASSUME AnswerAssumption ==
    /\ BodySize \in Nat \ {0} /\ FieldSize \in [Names -> Nat \ {0}]
    /\ Configured \subseteq Ids
    /\ \A kind \in {"bootstrap", "secret"} : \A a \in Answers[kind] :
          /\ a \in Seq(Signs)
          /\ \A n \in 1 .. Len(Wanted[kind]) : \A v \in Strings(a, Wanted[kind][n]) :
                 IsWhole(Wanted[kind][n], v)

VARIABLES
    call,         \* the exchange under way, or "none"
    toCome,       \* what the backend has sent and the callback not yet seen
    body,         \* result->body, up to body_len
    next,         \* the field to be read next, 0 while the answer comes in
    resolved      \* client->resolved_*, and status_buf

answerVars == <<call, toCome, body, next, resolved>>

AnswerInit ==
    /\ call = "none" /\ toCome = <<>> /\ body = <<>> /\ next = 0
    /\ resolved = [f \in Names |->
                     IF f \in Configured THEN Value(f, 1) ELSE <<>>]

-----------------------------------------------------------------------------
\* gw_http_post_json clears the result first.
Post(kind) ==
    /\ call = "none"
    /\ call' = kind /\ body' = <<>> /\ next' = 0
    /\ toCome' \in Answers[kind]
    /\ UNCHANGED resolved

\* What does not fit, with the terminating zero, is dropped.
Fragment(n) ==
    LET room == BodySize - 1 - Len(body)
        taken == IF Len(body) + n >= BodySize THEN room ELSE n
    IN  /\ call # "none" /\ next = 0
        /\ body' = body \o SubSeq(toCome, 1, taken)
        /\ toCome' = SubSeq(toCome, n + 1, Len(toCome))
        /\ UNCHANGED <<call, next, resolved>>

\* A connection closed early ends an answer like any other; an error, or a status
\* other than 200, ends the exchange.
AnswerOver ==
    /\ call # "none" /\ next = 0
    /\ \/ next' = 1 /\ UNCHANGED <<call, body>>
       \/ next' = 0 /\ call' = "none" /\ body' = <<>>
    /\ toCome' = <<>>
    /\ UNCHANGED resolved

\* Seeded fault: a value without its closing quote goes to the end of the body.
GetStringToEnd(f) ==
    {v \in UNION { {SubSeq(body, b, q - 1) :
                        q \in IF NextSign(body, Quote, b) # {} THEN NextSign(body, Quote, b)
                              ELSE {Len(body) + 1}} : b \in Begins(body, f)} :
        Len(v) < FieldSize[f]}

\* gw_json_get_string: one string, or none where it returns an error.
GetString(f) == {v \in Strings(body, f) : Len(v) < FieldSize[f]}

\* Only the ids have something to fall back on: what is configured, or what
\* there was.
FieldOf(f) ==
    IF GetString(f) = {} /\ f \in Ids
      THEN {IF f \in Configured THEN Value(f, 1) ELSE resolved[f]}
      ELSE GetString(f)

ReadField ==
    /\ call # "none" /\ next # 0
    /\ LET f == Wanted[call][next]
           more == FieldOf(f) # {} /\ next < Len(Wanted[call])
       IN  /\ resolved' \in IF FieldOf(f) = {} THEN {resolved}
                            ELSE {[resolved EXCEPT ![f] = v] : v \in FieldOf(f)}
           /\ next' = IF more THEN next + 1 ELSE 0
           /\ call' = IF more THEN call ELSE "none"
           /\ body' = IF more THEN body ELSE <<>>
    /\ UNCHANGED toCome

AnswerNext ==
    \/ \E kind \in {"bootstrap", "secret"} : Post(kind)
    \/ \E n \in 1 .. Len(toCome) : Fragment(n)
    \/ AnswerOver
    \/ ReadField

AnswerSpec == AnswerInit /\ [][AnswerNext]_answerVars

-----------------------------------------------------------------------------
(* Safety *)

\* However an answer is cut, by the backend, the network or the buffer, and in
\* whatever order it has its fields: what the client keeps of a field is a whole
\* value of that field.
WholeValues == \A f \in Names : IsWhole(f, resolved[f])
=============================================================================
