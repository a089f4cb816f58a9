--------------------------- MODULE LoginPipeline ---------------------------
(* A rejected login in the web process, app/__init__.py:179-195, as the     *)
(* server's worker threads (server.py:15) run it: a line in the log file, a *)
(* failed_login row, one call of the shared detector, and for an alarm a    *)
(* brute_force row and a notification.  Each of these is a step of its own; *)
(* the steps of different threads interleave, the clock moves between them, *)
(* and a store may fail or the process be restarted before any of them.     *)
(*                                                                          *)
(* A login that succeeds or is turned away before line 179 touches nothing  *)
(* modelled here.                                                           *)
EXTENDS FailedAttemptDetector, FiniteSets

CONSTANTS
    Threads,          \* server.py:15, the waitress workers
    TicksPerSecond,   \* the log line keeps whole seconds only
    MaxAttempts,      \* bound: rejected logins
    MaxFaults         \* bound: failed writes and restarts

ASSUME ThreadsAssumption == IsFiniteSet(Threads)
ASSUME TicksPerSecondAssumption == TicksPerSecond \in Nat \ {0}
ASSUME MaxAttemptsAssumption == MaxAttempts \in Nat
ASSUME MaxFaultsAssumption == MaxFaults \in Nat

VARIABLES
    pc,       \* pc[t]: what thread t does next
    req,      \* req[t]: the request t works on
    log,      \* the lines of logs/login_attempts.log
    failed,   \* failed[ip]: failed_login rows of ip
    brute,    \* brute[ip]: brute_force rows of ip
    alerts,   \* alerts[ip]: notifications sent for ip
    acked,    \* acked[ip]: answers "incorrect" given to ip
    faults    \* failures so far

handlerVars == <<pc, req, log, failed, brute, alerts, acked, faults>>
vars == <<detectorVars, handlerVars>>

Steps == {"idle", "stamped", "logged", "stored", "alarmed", "notifying"}
Requests == [ip : IPs, stamp : 0 .. MaxTime]
NoRequest == [ip |-> "none", stamp |-> 0]

\* The threads at step s with a request of ip.
At(s, ip) == {t \in Threads : pc[t] = s /\ req[t].ip = ip}

InFlight == Cardinality({t \in Threads : pc[t] = "stamped"})

Init ==
    /\ DetectorInit
    /\ pc = [t \in Threads |-> "idle"]
    /\ req = [t \in Threads |-> NoRequest]
    /\ log = <<>>
    /\ failed = [ip \in IPs |-> 0]
    /\ brute = [ip \in IPs |-> 0]
    /\ alerts = [ip \in IPs |-> 0]
    /\ acked = [ip \in IPs |-> 0]
    /\ faults = 0

Goto(t, step) == pc' = [pc EXCEPT ![t] = step]

\* The request ends, whatever its answer.
Finish(t) == /\ Goto(t, "idle")
             /\ req' = [req EXCEPT ![t] = NoRequest]

\* The request ends with "The email or password is incorrect."
Reject(t) == /\ Finish(t)
             /\ acked' = [acked EXCEPT ![req[t].ip] = @ + 1]

\* datetime.now().strftime("%Y-%m-%d %H:%M:%S")
LogStamp == now \div TicksPerSecond

\* Line 101: the time of the attempt is read before the file is opened.
Stamp(t, ip) ==
    /\ pc[t] = "idle"
    /\ Len(log) + InFlight < MaxAttempts
    /\ Goto(t, "stamped")
    /\ req' = [req EXCEPT ![t] = [ip |-> ip, stamp |-> LogStamp]]
    /\ UNCHANGED <<detectorVars, log, failed, brute, alerts, acked, faults>>

\* Lines 103-106: one line appended, flushed and synced.
WriteLog(t) ==
    /\ pc[t] = "stamped"
    /\ log' = Append(log, req[t])
    /\ Goto(t, "logged")
    /\ UNCHANGED <<detectorVars, req, failed, brute, alerts, acked, faults>>

\* Line 182.
StoreFailed(t) ==
    /\ pc[t] = "logged"
    /\ failed' = [failed EXCEPT ![req[t].ip] = @ + 1]
    /\ Goto(t, "stored")
    /\ UNCHANGED <<detectorVars, req, log, brute, alerts, acked, faults>>

\* Lines 183-185: the time is read and the detector called under the lock.
Detect(t) ==
    /\ pc[t] = "stored"
    /\ Record(req[t].ip, now)
    /\ \/ /\ answer'[req[t].ip].alarm
          /\ Goto(t, "alarmed")
          /\ UNCHANGED <<req, acked>>
       \/ /\ ~ answer'[req[t].ip].alarm
          /\ Reject(t)
    /\ UNCHANGED <<log, failed, brute, alerts, faults>>

\* Mutated form of StoreAlarm: at most one brute_force row per address.
StoreAlarmOnce(t) ==
    /\ pc[t] = "alarmed"
    /\ brute' = [brute EXCEPT ![req[t].ip] = 1]
    /\ Goto(t, "notifying")
    /\ UNCHANGED <<detectorVars, req, log, failed, alerts, acked, faults>>

\* Lines 186-187.
StoreAlarm(t) ==
    /\ pc[t] = "alarmed"
    /\ brute' = [brute EXCEPT ![req[t].ip] = @ + 1]
    /\ Goto(t, "notifying")
    /\ UNCHANGED <<detectorVars, req, log, failed, alerts, acked, faults>>

\* Line 188: notify() swallows what its channels raise.
Notify(t) ==
    /\ pc[t] = "notifying"
    /\ alerts' = [alerts EXCEPT ![req[t].ip] = @ + 1]
    /\ Reject(t)
    /\ UNCHANGED <<detectorVars, log, failed, brute, faults>>

Fault == faults < MaxFaults /\ faults' = faults + 1

\* Mutated form of LogFails: the error is logged and the handler goes on.
LogFailureIgnored(t) ==
    /\ Fault
    /\ pc[t] = "stamped"
    /\ Goto(t, "logged")
    /\ UNCHANGED <<detectorVars, req, log, failed, brute, alerts, acked>>

\* An OSError of the log file (189-192): nothing is written, or the line is
\* there and only the sync failed.  The client is told to come back later.
LogFails(t) ==
    /\ Fault
    /\ pc[t] = "stamped"
    /\ log' \in {log, Append(log, req[t])}
    /\ Finish(t)
    /\ UNCHANGED <<detectorVars, failed, brute, alerts, acked>>

\* sqlite3 gives up on a locked database (store.py:93).  That is no OSError,
\* so it leaves the handler at either row and the client sees a server error.
StoreFails(t) ==
    /\ Fault
    /\ pc[t] \in {"logged", "alarmed"}
    /\ Finish(t)
    /\ UNCHANGED <<detectorVars, log, failed, brute, alerts, acked>>

\* The process dies with its threads and its deques; file and rows stay.
Restart ==
    /\ Fault
    /\ DetectorRestart
    /\ pc' = [t \in Threads |-> "idle"]
    /\ req' = [t \in Threads |-> NoRequest]
    /\ UNCHANGED <<log, failed, brute, alerts, acked>>

ClockTick == Tick /\ UNCHANGED handlerVars

\* What the scheduler owes a thread that is in a handler.
Step(t) == \/ WriteLog(t) \/ StoreFailed(t) \/ Detect(t)
           \/ StoreAlarm(t) \/ Notify(t)

\* The bounds are used up and no request is being handled.
Quiescent == /\ now = MaxTime
             /\ Len(log) = MaxAttempts
             /\ \A t \in Threads : pc[t] = "idle"
             /\ UNCHANGED vars

Next ==
    \/ ClockTick
    \/ Restart
    \/ Quiescent
    \/ \E t \in Threads :
          \/ \E ip \in IPs : Stamp(t, ip)
          \/ Step(t)
          \/ LogFails(t)
          \/ StoreFails(t)

Fairness == \A t \in Threads : WF_vars(Step(t))

Spec == Init /\ [][Next]_vars /\ Fairness

-----------------------------------------------------------------------------

PipelineTypeOK ==
    /\ TypeOK
    /\ pc \in [Threads -> Steps]
    /\ req \in [Threads -> Requests \cup {NoRequest}]
    /\ \A t \in Threads : pc[t] = "idle" <=> req[t] = NoRequest
    /\ log \in Seq(Requests)
    /\ Len(log) <= MaxAttempts
    /\ {failed, brute, alerts, acked} \subseteq [IPs -> 0 .. MaxAttempts]
    /\ faults \in 0 .. MaxFaults

Lines(ip) == Cardinality({i \in 1 .. Len(log) : log[i].ip = ip})

\* A failed_login row never exists without its line in the log file, and a
\* client that was told "incorrect" is in both, whatever failed or died.
RowsAreLogged ==
    \A ip \in IPs :
        /\ failed[ip] + Cardinality(At("logged", ip)) <= Lines(ip)
        /\ acked[ip] + Cardinality(At("stored", ip)) <= failed[ip]

\* No failed_login row is counted twice: the alarms of an IP, stored or on
\* their way, with the attempts its deque still holds and the rows not yet
\* counted, are paid for by rows.
AlarmsAreBacked ==
    \A ip \in IPs :
        Threshold * (brute[ip] + Cardinality(At("alarmed", ip)))
            + Len(histories[ip]) + Cardinality(At("stored", ip)) <= failed[ip]

\* While nothing fails, an alarm the detector raised becomes a row.
AlarmsReachTheStore ==
    \A ip \in IPs, n \in 0 .. MaxAttempts \div Threshold :
        At("alarmed", ip) # {} /\ brute[ip] = n ~> brute[ip] > n \/ faults > 0
=============================================================================
