-------------------------- MODULE BruteForceAlarm --------------------------
(* What a brute-force detector promises, without saying how: every attempt  *)
(* of an IP since its last alarm is remembered for ever, and an attempt     *)
(* raises the alarm exactly when Threshold of them, itself included, lie in *)
(* the Window that ends now.                                                *)
EXTENDS Naturals, Sequences, FiniteSets

CONSTANTS IPs, Threshold, Window, MaxTime

VARIABLES
    now,          \* the clock
    sinceAlarm,   \* sinceAlarm[ip]: times of the attempts no alarm has used
    answer        \* answer[ip]: what the last attempt of ip was told

vars == <<now, sinceAlarm, answer>>

NoAnswer == [alarm |-> FALSE, count |-> 0]

Init == /\ now = 0
        /\ sinceAlarm = [ip \in IPs |-> <<>>]
        /\ answer = [ip \in IPs |-> NoAnswer]

Tick == /\ now < MaxTime
        /\ now' = now + 1
        /\ UNCHANGED <<sinceAlarm, answer>>

\* The attempts of s that lie in the window ending at time t.
Recent(s, t) == {i \in DOMAIN s : s[i] + Window >= t}

Attempt(ip) ==
    LET s == Append(sinceAlarm[ip], now)
        n == Cardinality(Recent(s, now))
    IN  /\ answer' = [answer EXCEPT ![ip] = [alarm |-> n >= Threshold, count |-> n]]
        /\ sinceAlarm' = [sinceAlarm EXCEPT ![ip] = IF n >= Threshold THEN <<>> ELSE s]
        /\ UNCHANGED now

\* The process that counts is restarted and starts to count from nothing.
Restart == /\ sinceAlarm' = [ip \in IPs |-> <<>>]
           /\ answer' = [ip \in IPs |-> NoAnswer]
           /\ UNCHANGED now

Next == Tick \/ Restart \/ \E ip \in IPs : Attempt(ip)

Spec == Init /\ [][Next]_vars
=============================================================================
