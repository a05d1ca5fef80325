---------------------------- MODULE EventPattern ----------------------------
(***************************************************************************)
(* event_pattern_matches (ccxml_session.c): the match of an event name     *)
(* with a transition's pattern, in which "*" stands for any run of         *)
(* characters and letters compare without case.  The loop remembers only   *)
(* the last "*" and goes back to it; one step is one round of the loop.    *)
(***************************************************************************)
EXTENDS Integers, Sequences

CONSTANTS
    MaxPattern, MaxName,   \* bounds: lengths
    Letters                \* the characters of names; patterns have "*" too

PatternAssumption ==
    MaxPattern \in Nat /\ MaxName \in Nat /\ Letters \subseteq {"a", "A", "b"}

VARIABLES
    pattern, name,
    pattern_index, name_index,            \* 0-based, as in the code
    wildcard_index, wildcard_name_index,  \* None before the first "*"
    result                                \* what the function has returned

vars == <<pattern, name, pattern_index, name_index, wildcard_index, wildcard_name_index, result>>

None == -1
Strings(letters, n) == UNION {[1 .. k -> letters] : k \in 0 .. n}

Init ==
    /\ pattern \in Strings(Letters \cup {"*"}, MaxPattern)
    /\ name \in Strings(Letters, MaxName)
    /\ pattern_index = 0 /\ name_index = 0
    /\ wildcard_index = None /\ wildcard_name_index = 0
    /\ result = "NONE"

ascii_fold(c) == IF c = "A" THEN "a" ELSE c

Looping == result = "NONE" /\ name_index < Len(name)
More == pattern_index < Len(pattern)
Equal == /\ More /\ pattern[pattern_index + 1] # "*"
         /\ ascii_fold(pattern[pattern_index + 1]) = ascii_fold(name[name_index + 1])
Wild == More /\ pattern[pattern_index + 1] = "*"

match_character ==
    /\ Looping /\ Equal
    /\ pattern_index' = pattern_index + 1 /\ name_index' = name_index + 1
    /\ UNCHANGED <<pattern, name, wildcard_index, wildcard_name_index, result>>

match_wildcard ==
    /\ Looping /\ ~Equal /\ Wild
    /\ wildcard_index' = pattern_index /\ pattern_index' = pattern_index + 1
    /\ wildcard_name_index' = name_index
    /\ UNCHANGED <<pattern, name, name_index, result>>

Retried == wildcard_name_index + 1
backtrack ==
    /\ Looping /\ ~Equal /\ ~Wild /\ wildcard_index # None
    /\ pattern_index' = wildcard_index + 1
    /\ wildcard_name_index' = Retried /\ name_index' = Retried
    /\ UNCHANGED <<pattern, name, wildcard_index, result>>

mismatch ==
    /\ Looping /\ ~Equal /\ ~Wild /\ wildcard_index = None
    /\ result' = "FALSE"
    /\ UNCHANGED <<pattern, name, pattern_index, name_index, wildcard_index, wildcard_name_index>>

(* At the end of the name only "*" may be left of the pattern.             *)
Rest == \A i \in pattern_index + 1 .. Len(pattern) : pattern[i] = "*"
match_end ==
    /\ result = "NONE" /\ name_index = Len(name)
    /\ result' = IF Rest THEN "TRUE" ELSE "FALSE"
    /\ UNCHANGED <<pattern, name, pattern_index, name_index, wildcard_index, wildcard_name_index>>

Next == match_character \/ match_wildcard \/ backtrack \/ mismatch \/ match_end
Spec == Init /\ [][Next]_vars
FairSpec == Spec /\ WF_vars(Next)

-----------------------------------------------------------------------------
(* The definition: some way to split the name among the pattern's parts.   *)
Matches(p, n) ==
    LET m[i \in 0 .. Len(p), j \in 0 .. Len(n)] ==
            IF i = 0 THEN j = 0
            ELSE IF p[i] = "*" THEN m[i - 1, j] \/ (j > 0 /\ m[i, j - 1])
            ELSE j > 0 /\ ascii_fold(p[i]) = ascii_fold(n[j]) /\ m[i - 1, j - 1]
    IN m[Len(p), Len(n)]

(* Going back to the last "*" alone decides the match as every split of    *)
(* the name would (event_pattern_matches).                                 *)
GreedyIsExact == result # "NONE" => (result = "TRUE") = Matches(pattern, name)

(* The match ends: a step back always moves the start of the next attempt  *)
(* forward.                                                                *)
MatchEnds == <>(result # "NONE")
=============================================================================
