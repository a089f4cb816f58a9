-------------------------- MODULE SecurityMonitor --------------------------
(* The terminal monitor beside the web process: run_detector of             *)
(* monitor/detector.py:104-118 follows the log file that LoginPipeline      *)
(* writes and feeds a FailedAttemptDetector of its own, in the order of the *)
(* lines and with the whole-second time printed in each of them.            *)
(*                                                                          *)
(* follow() is modelled as delivering the complete lines of one log file in *)
(* order; module LogFollow says when it does.                               *)
EXTENDS LoginPipeline

CONSTANT FromStart     \* BOOLEAN: the --from-start option

ASSUME FromStartAssumption == FromStart \in BOOLEAN
ASSUME WholeSecondsAssumption == Window % TicksPerSecond = 0

VARIABLES
    position,    \* lines of the log the monitor has read or skipped
    deques,      \* deques[ip]: the monitor's deque of ip
    verdict,     \* verdict[ip]: (alarm, count) of the line of ip read last
    unspent      \* history variable: every time read since the last alarm

monitorVars == <<position, deques, verdict, unspent>>
allVars == <<vars, monitorVars>>

WindowSeconds == Window \div TicksPerSecond

\* A monitor that starts, at the beginning of the file or at its end.
Fresh(pos) == /\ position = pos
              /\ deques = [ip \in IPs |-> <<>>]
              /\ verdict = [ip \in IPs |-> NoAnswer]
              /\ unspent = [ip \in IPs |-> <<>>]

StartPosition == IF FromStart THEN 0 ELSE Len(log)

MonitorInit == Init /\ Fresh(0)

\* Mutated form of ReadLine: the monitor's own clock, not the line's time.
ReadLineByClock ==
    /\ position < Len(log)
    /\ LET line == log[position + 1]
           r == RecordAttempt(deques[line.ip], LogStamp, WindowSeconds)
       IN  /\ deques' = [deques EXCEPT ![line.ip] = r.history]
           /\ verdict' = [verdict EXCEPT ![line.ip] = [alarm |-> r.alarm, count |-> r.count]]
           /\ unspent' = [unspent EXCEPT ![line.ip] =
                             IF r.alarm THEN <<>> ELSE Append(@, line.stamp)]
    /\ position' = position + 1
    /\ UNCHANGED vars

\* One turn of the loop in run_detector.
ReadLine ==
    /\ position < Len(log)
    /\ LET line == log[position + 1]
           r == RecordAttempt(deques[line.ip], line.stamp, WindowSeconds)
       IN  /\ deques' = [deques EXCEPT ![line.ip] = r.history]
           /\ verdict' = [verdict EXCEPT ![line.ip] = [alarm |-> r.alarm, count |-> r.count]]
           /\ unspent' = [unspent EXCEPT ![line.ip] =
                             IF r.alarm THEN <<>> ELSE Append(@, line.stamp)]
    /\ position' = position + 1
    /\ UNCHANGED vars

\* The monitor is stopped and started again; its deques are lost.
MonitorRestart ==
    /\ Fault
    /\ position' = StartPosition
    /\ deques' = [ip \in IPs |-> <<>>]
    /\ verdict' = [ip \in IPs |-> NoAnswer]
    /\ unspent' = [ip \in IPs |-> <<>>]
    /\ UNCHANGED <<detectorVars, pc, req, log, failed, brute, alerts, acked>>

MonitorNext == \/ Next /\ UNCHANGED monitorVars
               \/ ReadLine
               \/ MonitorRestart

MonitorSpec == MonitorInit /\ [][MonitorNext]_allVars /\ Fairness

-----------------------------------------------------------------------------

MonitorTypeOK ==
    /\ PipelineTypeOK
    /\ position \in 0 .. Len(log)
    /\ deques \in [IPs -> Seq(0 .. MaxTime)]
    /\ verdict \in [IPs -> [alarm : BOOLEAN, count : 0 .. MaxAttempts]]
    /\ unspent \in [IPs -> Seq(0 .. MaxTime)]

\* The times of s in the window that ends at t.
InWindow(s, t) == {i \in DOMAIN s : s[i] + WindowSeconds >= t /\ s[i] <= t}

\* The lines up to line n of the log are in the order of their times.
OrderedUpTo(n) == \A i, j \in 1 .. n : i <= j => log[i].stamp <= log[j].stamp

\* The count the monitor prints for a line is the number of attempts of that
\* IP, since its last alarm, in the 30 seconds up to the time in the line:
\* "Because timestamps are ordered, there is no need to examine newer entries
\* after finding a valid oldest entry" (docs/06-DETECTOR-ENGINE.md:84).  Two
\* worker threads may write their lines in the other order; of such a log the
\* property says nothing, and it fails there.
CountsTheWindow ==
    [][ReadLine /\ OrderedUpTo(position') =>
         LET line == log[position + 1]
             s    == Append(unspent[line.ip], line.stamp)
         IN  verdict'[line.ip].count = Cardinality(InWindow(s, line.stamp))]_allVars

=============================================================================
