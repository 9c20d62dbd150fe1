----------------------------- MODULE TopicMatch -----------------------------
(***************************************************************************)
(* Which handlers deliverMessage of MQTTClient.c calls for a topic name,   *)
(* and which ones MQTT means.  Names and filters are sequences of          *)
(* characters, given by their codes.                                       *)
(***************************************************************************)
EXTENDS Integers, Sequences

Separator == 47   \* '/'
OneLevel == 43    \* '+'
AnyLevels == 35   \* '#'
Wildcards == {OneLevel, AnyLevels}

\* The last character of the level that character n of a name is in, n itself aside.
LevelEnd(name, n) ==
  CHOOSE m \in n..Len(name) :
    /\ m = Len(name) \/ name[m + 1] = Separator
    /\ \A i \in (n + 1)..m : name[i] # Separator

\* A character of the filter and one of the name at which the loop stops.
Differ(f, n) ==
  \/ n = Separator /\ f # Separator
  \/ f \notin Wildcards /\ f # n

\* Mutant: '+' skips to the end of the name.
Mutant_isTopicMatched(filter, name) ==
  LET matched[f \in 1..(Len(filter) + 1)] ==
        [n \in 1..(Len(name) + 1) |->
           IF f > Len(filter) \/ n > Len(name) THEN f > Len(filter) /\ n > Len(name)
           ELSE IF Differ(filter[f], name[n]) THEN FALSE
           ELSE matched[f + 1][IF filter[f] \in Wildcards THEN Len(name) + 1 ELSE n + 1]]
  IN matched[1][1]
\* Character by character, from the f-th of the filter and the n-th of the name.
isTopicMatched(filter, name) ==
  LET matched[f \in 1..(Len(filter) + 1)] ==
        [n \in 1..(Len(name) + 1) |->
           IF f > Len(filter) \/ n > Len(name) THEN f > Len(filter) /\ n > Len(name)
           ELSE IF Differ(filter[f], name[n]) THEN FALSE
           ELSE matched[f + 1][CASE filter[f] = OneLevel -> LevelEnd(name, n) + 1
                                 [] filter[f] = AnyLevels -> Len(name) + 1
                                 [] OTHER -> n + 1]]
  IN matched[1][1]

\* Whether deliverMessage calls the handler of a slot.
Handles(filter, name) == name = filter \/ isTopicMatched(filter, name)

-----------------------------------------------------------------------------
(* What MQTT means. *)

\* The levels of a name or filter, what stands between its separators, found from its end.
Levels(s) ==
  LET levels[i \in 1..(Len(s) + 1)] ==
        IF i > Len(s) THEN << <<>> >>
        ELSE LET rest == levels[i + 1] IN
             IF s[i] = Separator THEN << <<>> >> \o rest
             ELSE << <<s[i]>> \o rest[1] >> \o Tail(rest)
  IN levels[1]

EndsInAny(levels) == levels[Len(levels)] = <<AnyLevels>>
Matches(filter, name) ==
  LET f == Levels(filter)
      n == Levels(name)
      last == IF EndsInAny(f) THEN Len(f) - 1 ELSE Len(f)
  IN /\ IF EndsInAny(f) THEN Len(n) >= last ELSE Len(n) = last
     /\ \A k \in 1..last : f[k] \in {n[k], <<OneLevel>>}

\* "# can only be at end, + and # can only be next to separator" (MQTTClient.c:134-135).
Correct(filter) ==
  LET f == Levels(filter) IN
  \A k \in 1..Len(f) :
    \/ \A i \in 1..Len(f[k]) : f[k][i] \notin Wildcards
    \/ f[k] = <<OneLevel>>
    \/ f[k] = <<AnyLevels>> /\ k = Len(f)
=============================================================================
