---------------------------- MODULE MCMqttTopic ----------------------------
(***************************************************************************)
(* Every filter and every name up to a length, typed one character at a    *)
(* time, for the algorithms of MqttTopic.                                  *)
(***************************************************************************)
EXTENDS MqttTopic

CONSTANTS
    FilterChars, NameChars,    \* the characters that are typed
    MaxFilter, MaxName,        \* bounds: the longest filter and name
    MaxMatched                 \* bound: the longest filter that names are matched against

VARIABLES filter, name
vars == <<filter, name>>

Init == filter = << >> /\ name = << >>

TypeFilter == Len(filter) < MaxFilter /\ name = << >>
              /\ \E c \in FilterChars : filter' = Append(filter, c) /\ UNCHANGED name
TypeName == Len(name) < MaxName /\ Len(filter) <= MaxMatched
            /\ \E c \in NameChars : name' = Append(name, c) /\ UNCHANGED filter
Clear == filter' = << >> /\ name' = << >>

Next == TypeFilter \/ TypeName \/ Clear
Spec == Init /\ [][Next]_vars

\* For every filter and name that obey the topic rules, the character loop of
\* iotx_mc_is_topic_matched gives the verdict of the level-by-level definition.
MatchAgreesWithLevels ==
    WellFormedFilter(filter) /\ WellFormedName(name) =>
        (is_topic_matched(filter, name) <=> Covers(filter, name))

\* iotx_mc_check_topic refuses no filter and no name that obeys the topic rules,
\* whatever empty levels, one-character levels and trailing slashes it has, as long
\* as it is shorter than CONFIG_MQTT_TOPIC_MAXLEN.
WellFormedAccepted ==
    /\ WellFormedFilter(filter) /\ Len(filter) < TOPIC_MAXLEN => check_topic(filter, "FILTER")
    /\ WellFormedName(filter) /\ Len(filter) < TOPIC_MAXLEN => check_topic(filter, "NAME")

\* What iotx_mc_check_topic accepts obeys the topic rules in every level but a last
\* one of a single character, which infra_strtok does not return, and a '#' may
\* be followed by other levels only where it is the first level.
AcceptedIsChecked ==
    check_topic(filter, "FILTER") /\ Len(filter) < TOPIC_MAXLEN =>
        LET checked == {k \in NonEmpty(filter) :
                            Len(Level(filter, k)) > 1 \/ \E m \in Slashes(filter) : m > k}
        IN  \A k \in checked :
                /\ HasWildcard(Level(filter, k)) => Len(Level(filter, k)) = 1
                /\ Level(filter, k) = <<"#">> /\ (\E m \in NonEmpty(filter) : m < k) =>
                      \A m \in checked : m <= k
=============================================================================
