----------------------- MODULE FailedAttemptDetector -----------------------
(* The detector of the web process: app/__init__.py keeps one               *)
(* FailedAttemptDetector (monitor/detector.py:30-46) for its lifetime and   *)
(* calls record() under DETECTOR_LOCK with a time read inside the lock, so  *)
(* a call is one atomic step at the time of the clock.                      *)
(*                                                                          *)
(* The clock is assumed not to step back while the process lives.           *)
(*                                                                          *)
(* now, histories and answer are program state; sinceAlarm is a history     *)
(* variable, read by nothing but the properties and the refinement.         *)
EXTENDS AttemptWindow

CONSTANTS
    IPs,
    Window,       \* detector.py:18, WINDOW_SECONDS, in ticks of the clock
    MaxTime       \* bound: the clock stops here

ASSUME WindowAssumption == Window \in Nat
ASSUME MaxTimeAssumption == MaxTime \in Nat

VARIABLES
    now,          \* datetime.now()
    histories,    \* histories[ip]: the deque of ip
    answer,       \* answer[ip]: (alarm, count) as last returned for ip
    sinceAlarm    \* sinceAlarm[ip]: every attempt of ip since its last alarm

detectorVars == <<now, histories, answer, sinceAlarm>>

NoAnswer == [alarm |-> FALSE, count |-> 0]

DetectorInit ==
    /\ now = 0
    /\ histories = [ip \in IPs |-> <<>>]
    /\ answer = [ip \in IPs |-> NoAnswer]
    /\ sinceAlarm = [ip \in IPs |-> <<>>]

Tick == /\ now < MaxTime
        /\ now' = now + 1
        /\ UNCHANGED <<histories, answer, sinceAlarm>>

\* record(ip, eventTime).
Record(ip, eventTime) ==
    LET r == RecordAttempt(histories[ip], eventTime, Window)
    IN  /\ histories' = [histories EXCEPT ![ip] = r.history]
        /\ answer' = [answer EXCEPT ![ip] = [alarm |-> r.alarm, count |-> r.count]]
        /\ sinceAlarm' = [sinceAlarm EXCEPT ![ip] =
                             IF r.alarm THEN <<>> ELSE Append(sinceAlarm[ip], eventTime)]
        /\ UNCHANGED now

\* FAILED_DETECTOR.record(ip_address, datetime.now()) inside DETECTOR_LOCK.
Attempt(ip) == Record(ip, now)

\* The deques live in the memory of the process: a restart empties them.
DetectorRestart ==
    /\ histories' = [ip \in IPs |-> <<>>]
    /\ answer' = [ip \in IPs |-> NoAnswer]
    /\ sinceAlarm' = [ip \in IPs |-> <<>>]
    /\ UNCHANGED now

DetectorNext == Tick \/ DetectorRestart \/ \E ip \in IPs : Attempt(ip)

DetectorSpec == DetectorInit /\ [][DetectorNext]_detectorVars

-----------------------------------------------------------------------------

TypeOK ==
    /\ now \in 0 .. MaxTime
    /\ histories \in [IPs -> Seq(0 .. MaxTime)]
    /\ answer \in [IPs -> [alarm : BOOLEAN, count : Nat]]
    /\ sinceAlarm \in [IPs -> Seq(0 .. MaxTime)]

\* A deque is empty or short of the threshold between two calls: the alarm
\* is raised on the attempt that completes a burst, never later, and the
\* memory held for one IP is bounded.
HistoryBelowThreshold == \A ip \in IPs : Len(histories[ip]) < Threshold

\* Any Threshold attempts in a row span more than the window w.
NoBurst(s, w) == \A i \in 1 .. Len(s) : i + Threshold - 1 <= Len(s) =>
                     s[i] + w < s[i + Threshold - 1]

\* The attempts no alarm has used never contain a burst: what the eviction
\* loop forgot could not have completed an alarm.
NoMissedBurst == \A ip \in IPs : NoBurst(sinceAlarm[ip], Window)

\* Attempts s were recorded in the order of a clock that shows t.
InOrder(s, t) == /\ \A i \in 1 .. Len(s) : s[i] <= t
                 /\ \A i, j \in 1 .. Len(s) : i <= j => s[i] <= s[j]

\* The deque h is a tail of the attempts s, and what was dropped of s is out
\* of the window w that ends at t.
DequeIsTail(h, s, t, w) ==
    \E k \in 0 .. Len(s) :
        /\ Len(h) = Len(s) - k
        /\ \A i \in 1 .. Len(h) : h[i] = s[k + i]
        /\ \A i \in 1 .. k : Expired(s[i], t, w)

\* The deque of an IP loses nothing that could still count towards an alarm:
\* the fact that makes the other properties inductive.
DequeHoldsTheWindow ==
    \A ip \in IPs : /\ InOrder(sinceAlarm[ip], now)
                    /\ DequeIsTail(histories[ip], sinceAlarm[ip], now, Window)

\* A sliding-window detector that forgets nothing gives the same answers:
\* the deque implementation is the abstract BruteForceAlarm.
Alarm == INSTANCE BruteForceAlarm WITH
             now <- now, sinceAlarm <- sinceAlarm, answer <- answer,
             IPs <- IPs, Threshold <- Threshold, Window <- Window, MaxTime <- MaxTime
ImplementsBruteForceAlarm == Alarm!Spec

=============================================================================
