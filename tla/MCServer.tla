------------------------------- MODULE MCServer -------------------------------
(* A small house: one sensor, one that is not in the files, two versions of *)
(* the files that differ in what the rules do.                              *)
EXTENDS Server

CONSTANTS s1, old, new, light

\* The new rules have one rule more, in front of the old one: between two
\* hours of the day, when the sensor says less than 1.
MCRules(c) ==
    LET If(test, than) == [sensor |-> s1, test |-> test, than |-> than]
        lit == [when |-> {If("=", 1)}, do |-> light]
        early == [when |-> {If("<", 1), If("after", 0), If("before", 1)}, do |-> light]
    IN  IF c = old THEN <<lit>> ELSE <<early, lit>>

\* They also name a property that the old file of sensors does not have.
MCEnds(L, S) ==
    IF L = "rules" /\ S["rules"] = new /\ S["sensors"] = old THEN "exited" ELSE "up"
==============================================================================
