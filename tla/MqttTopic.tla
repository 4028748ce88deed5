----------------------------- MODULE MqttTopic -----------------------------
(***************************************************************************)
(* The topic algorithms of the MQTT client: iotx_mc_check_topic, which     *)
(* accepts or refuses a topic name or filter, over infra_strtok, and       *)
(* iotx_mc_is_topic_matched, which compares a filter with a name.  These    *)
(* are about characters, so a topic is a sequence of characters here.      *)
(***************************************************************************)
EXTENDS Integers, Sequences, SequencesExt, FiniteSetsExt, LinkedList

CONSTANT TOPIC_MAXLEN     \* CONFIG_MQTT_TOPIC_MAXLEN, 128 in the code

ASSUME TopicMaxLenAssumption == TOPIC_MAXLEN \in Nat \ {0}

Wildcards == {"+", "#"}
Unprintable == {"ctl"}       \* stands for every byte below 32 or from 127 on
NUL == "nul"                 \* the terminator, where a length counts it in

Slashes(s) == {k \in 1..Len(s) : s[k] = "/"}

\* The first slash of s at j or after it, one past the end when there is none.
NextSlash(s, j) == Min({k \in Slashes(s) : k >= j} \cup {Len(s) + 1})

\* The first character of s at j or after it that is no slash, one past the end when
\* there is none.
FirstOther(s, j) == Min((j..(Len(s) + 1)) \ Slashes(s))

NoToken == << >>             \* NULL: infra_strtok never returns an empty token

\* infra_strtok(NULL, "/") on the buffer s: the token and the new value of the static pos.
\* It gives up on a rest of one character, be it a delimiter or not.
infra_strtok(s, pos) ==
    LET b == FirstOther(s, pos)
        e == NextSlash(s, b)
    IN  IF pos >= Len(s)
          THEN [tok |-> NoToken, pos |-> pos]
          ELSE [tok |-> SubSeq(s, b, e - 1), pos |-> IF e <= Len(s) THEN e + 1 ELSE e]

\* The first calls of infra_strtok on the buffer s, one by one.
Calls(s) ==
    LET call[k \in 0..(Len(s) + 1)] == IF k = 0 THEN [tok |-> NoToken, pos |-> 1]
                                                ELSE infra_strtok(s, call[k - 1].pos)
    IN  call

\* The tokens of s, up to the first NULL.
Tokens(s) ==
    LET n == Min({k \in 1..(Len(s) + 1) : Calls(s)[k].tok = NoToken}) - 1
    IN  [k \in 1..n |-> Calls(s)[k].tok]

check_rule_Swapped(tok, type) ==      \* Mutant: the branches of the type test are swapped.
    \A i \in 1..Len(tok) :
        /\ tok[i] \in Wildcards => type = "NAME" /\ Len(tok) = 1
        /\ tok[i] \notin Unprintable

\* iotx_mc_check_rule
check_rule(tok, type) ==
    \A i \in 1..Len(tok) :
        /\ tok[i] \in Wildcards => type = "FILTER" /\ Len(tok) = 1
        /\ tok[i] \notin Unprintable

HashLast_Dropped(toks) == TRUE      \* Mutant: the flag is never tested.

\* mask: no token follows one that starts with '#'.  The first token does not set it.
HashLast(toks) == \A k \in 2..(Len(toks) - 1) : toks[k][1] # "#"

\* iotx_mc_check_topic.  topicString has no room for the last of TOPIC_MAXLEN characters.
check_topic(s, type) ==
    /\ Len(s) \in 1..TOPIC_MAXLEN /\ s[1] = "/"
    /\ LET topicString == SubSeq(s, 1, Min({Len(s), TOPIC_MAXLEN - 1}))
           toks == Tokens(topicString)
       IN  toks # << >> /\ (\A k \in 1..Len(toks) : check_rule(toks[k], type)) /\ HashLast(toks)

\* What one turn of the loop of is_topic_matched makes of the position j in name n
\* for the filter character c; 0 when the loop breaks.
Advance_PlusAll(c, n, j) ==      \* Mutant: '+' runs over separators.
    IF n[j] = "/" /\ c # "/" THEN 0
    ELSE CASE c = "+" -> Len(n) + 1
           [] c = "#" -> Len(n) + 1
           [] OTHER   -> IF c = n[j] THEN j + 1 ELSE 0

Advance(c, n, j) ==
    IF n[j] = "/" /\ c # "/" THEN 0
    ELSE CASE c = "+" -> NextSlash(n, j)
           [] c = "#" -> Len(n) + 1
           [] OTHER   -> IF c = n[j] THEN j + 1 ELSE 0

\* curn when curf is at i; 0 after a break.
curn(f, n) ==
    LET at[i \in 1..(Len(f) + 1)] ==
            IF i = 1 THEN 1
            ELSE IF at[i - 1] = 0 \/ at[i - 1] > Len(n) THEN 0
            ELSE Advance(f[i - 1], n, at[i - 1])
    IN  at

\* iotx_mc_is_topic_matched: both strings must be used up.
is_topic_matched(f, n) == curn(f, n)[Len(f) + 1] = Len(n) + 1

\* MQTTPacket_equals, and the test that deliver_message makes for every handler.
Delivers(f, n) == f = n \/ is_topic_matched(f, n)

\* The test that MQTTUnsubscribe makes for every handler: its length counts the
\* terminator in.
Removes(f, g) == LET n == Append(g, NUL) IN f = n \/ is_topic_matched(f, n)

----------------------------------------------------------------------------
(* Reference definitions, by levels: a level begins at a slash.             *)

\* What is between the slash k of s and the next one.
Level(s, k) == SubSeq(s, k + 1, NextSlash(s, k + 1) - 1)

NonEmpty(s) == {k \in Slashes(s) : Level(s, k) # << >>}
HasWildcard(t) == \E i \in 1..Len(t) : t[i] \in Wildcards
Printable(s) == \A i \in 1..Len(s) : s[i] \notin Unprintable

WellFormedName(s) ==
    s # << >> /\ s[1] = "/" /\ NonEmpty(s) # {} /\ ~HasWildcard(s) /\ Printable(s)

WellFormedFilter(s) ==
    /\ s # << >> /\ s[1] = "/" /\ NonEmpty(s) # {} /\ Printable(s)
    /\ \A k \in Slashes(s) :
          /\ HasWildcard(Level(s, k)) => Len(Level(s, k)) = 1
          /\ Level(s, k) = <<"#">> => \A m \in Slashes(s) : m <= k

\* A level of a filter and one of a name: '+' and '#' do not stand for an empty level.
LevelMatches(fl, nl) == IF fl \in {<<"+">>, <<"#">>} THEN nl # << >> ELSE nl = fl

\* Filter f covers name n: level by level, '+' stands for one level and a '#' at the
\* end for all the levels that are left.
Covers(f, n) ==
    LET p == Cardinality(Slashes(f))
        q == Cardinality(Slashes(n))
        fs == Ascending(Slashes(f))
        ns == Ascending(Slashes(n))
    IN  /\ IF Level(f, fs[p]) = <<"#">> THEN q >= p ELSE q = p
        /\ \A k \in 1..p : LevelMatches(Level(f, fs[k]), Level(n, ns[k]))
=============================================================================
