--------------------------- MODULE AttemptWindow ---------------------------
(* The arithmetic of monitor/detector.py: a deque of attempt times for one  *)
(* IP address, oldest on the left, and what recording one more attempt does *)
(* to it.  Times are natural numbers in the unit of the caller's clock.     *)
EXTENDS Naturals, Sequences

CONSTANT Threshold          \* detector.py:17, THRESHOLD

ASSUME ThresholdAssumption == Threshold \in Nat \ {0}

\* history[0] < event_time - window, without leaving the naturals.
Expired(stamp, eventTime, window) == stamp + window < eventTime

\* How many times the loop `while history and history[0] < cutoff` pops: it
\* looks only at the leftmost entry, so it stops at the first one that is in
\* the window, whatever stands behind it.
Popped(history, eventTime, window) ==
    CHOOSE n \in 0 .. Len(history) :
        /\ \A i \in 1 .. n : Expired(history[i], eventTime, window)
        /\ n < Len(history) => ~ Expired(history[n + 1], eventTime, window)

\* Mutated form of Evict: the deque is trimmed at the wrong end.
EvictNewest(history, eventTime, window) ==
    SubSeq(history, 1, Len(history) - Popped(history, eventTime, window))

Evict(history, eventTime, window) ==
    SubSeq(history, Popped(history, eventTime, window) + 1, Len(history))

\* Mutated form of RecordAttempt: the alarm waits for one attempt more.
RecordAttemptLate(history, eventTime, window) ==
    LET kept  == Evict(Append(history, eventTime), eventTime, window)
        alarm == Len(kept) > Threshold
    IN  [history |-> IF alarm THEN <<>> ELSE kept,
         alarm   |-> alarm,
         count   |-> Len(kept)]

\* Mutated form of RecordAttempt: the deque is not cleared by an alarm.
RecordAttemptUncleared(history, eventTime, window) ==
    LET kept == Evict(Append(history, eventTime), eventTime, window)
    IN  [history |-> kept, alarm |-> Len(kept) >= Threshold, count |-> Len(kept)]

\* FailedAttemptDetector.record for one IP: the deque it leaves behind and
\* the pair (alarm, count) it returns.
RecordAttempt(history, eventTime, window) ==
    LET kept  == Evict(Append(history, eventTime), eventTime, window)
        alarm == Len(kept) >= Threshold
    IN  [history |-> IF alarm THEN <<>> ELSE kept,
         alarm   |-> alarm,
         count   |-> Len(kept)]
=============================================================================
