---------------------------- MODULE RateLimits -----------------------------
(* The shared rate limiter (rate-limit.middleware.ts, redis/redis.ts) and    *)
(* the life of the server processes it runs in (server.ts, config/env.ts).   *)
(* Counters of different keys do not touch each other, so a behaviour        *)
(* follows one key of one limiter. A counter keeps the ticks left of its     *)
(* window; counts stop at Limit + 1, from where on nothing changes.          *)
EXTENDS Integers

CONSTANTS Servers,          \* server processes
          Callers,          \* requests under way at a time
          Limit, Window,    \* limit and windowMs of the limiter followed
          Configurations,   \* environments the processes may be given
          Followed,         \* limiters a behaviour may follow
          MaxOutages        \* bound: failures of Redis and of connections to it

ASSUME LimitsAssumption ==
    /\ Limit \in Nat \ {0} /\ Window \in Nat \ {0}
    /\ MaxOutages \in Nat
    /\ "redis" \notin Servers

VARIABLES limiter,    \* the limiter followed
          config,     \* the environment of every process
          counters,   \* the key in Redis and in each process's own memory
          redis,      \* up | down
          process,    \* down | starting | up | stopping
          link,       \* none | ready | lost: the process's client of Redis
          calls,      \* requests in the limiter
          admitted,   \* requests let through that the current window counted
          outages

counterVars == <<counters, redis, admitted>>
limitVars == <<limiter, config, counters, redis, process, link, calls, admitted, outages>>

-----------------------------------------------------------------------------
(* Configuration                                                             *)

FailClosed == {"login-ip", "login-ph", "register", "change-pw", "admin-reset-pw"}
Limiters == FailClosed \cup {"api", "upload"}

\* Mutant: the limiters of the login answer like those of the rest of the API.
AllOpen == [l \in Limiters |-> "open"]

FailMode == [l \in Limiters |-> IF l \in FailClosed THEN "closed" ELSE "open"]

Production == config.mode = "production"

(* rest: the rules on keys, storage, origin, database and session timing.    *)
ValidateProductionConfig ==
    Production =>
        /\ config.redisUrl
        /\ config.proxyHops >= 1
        /\ config.sms # "console"
        /\ config.rest

(* The Eskiz adapter is a stub: never usable in production.                  *)
SmsStartupProblem == Production /\ config.sms = "eskiz"

(* Where getRedis keeps the counters of process p.                           *)
Store(p) == IF config.mode # "test" /\ config.redisUrl THEN "redis" ELSE p

Bypassed == ~Production /\ config.bypass

-----------------------------------------------------------------------------
(* Counters                                                                  *)

NoExpiry == -1
Absent == [count |-> 0, ttl |-> NoExpiry]

Counted(n) == IF n > Limit THEN n ELSE n + 1

\* Mutant: every hit opens the window again.
IncrWindowExtending(counter) ==
    [count |-> Counted(counter.count), ttl |-> Window]

(* INCR creates a missing key without expiry; PTTL is negative then, and for *)
(* a stray key.                                                              *)
IncrWindowLua(counter) ==
    [count |-> Counted(counter.count),
     ttl |-> IF counter.ttl < 0 THEN Window ELSE counter.ttl]

(* MemoryRedis finds out at the next use that an entry has expired.          *)
Live(entry) == IF entry.ttl = 0 THEN Absent ELSE entry

IncrWindowMemory(entry) ==
    IF Live(entry) = Absent THEN [count |-> 1, ttl |-> Window]
    ELSE [count |-> Counted(entry.count),
          ttl |-> IF entry.ttl = NoExpiry THEN Window ELSE entry.ttl]

IncrWindow(store, counter) ==
    IF store = "redis" THEN IncrWindowLua(counter) ELSE IncrWindowMemory(counter)

Elapsed(store, counter) ==
    IF counter.ttl <= 0 THEN counter
    ELSE IF store = "redis" /\ counter.ttl = 1 THEN Absent
    ELSE [counter EXCEPT !.ttl = @ - 1]

-----------------------------------------------------------------------------
(* Calls: idle; sent to Redis; counted, with the answer on its way; failed.  *)
(* inWindow says that the window which counted the call is still open.       *)
IdleCall == [at |-> "idle", server |-> "none", count |-> 0, inWindow |-> FALSE]

OnItsWay(call) == call.at \in {"sent", "counted"}

Answered(call, count) ==
    [call EXCEPT !.at = "counted", !.count = count, !.inWindow = TRUE]

WithoutAnswer(call) == [IdleCall EXCEPT !.at = "sent", !.server = call.server]

Receive(c, p) ==
    /\ process[p] = "up" /\ calls[c] = IdleCall /\ ~Bypassed
    /\ LET call == [IdleCall EXCEPT !.at = "sent", !.server = p] IN
       IF Store(p) = "redis"
       THEN /\ calls' = [calls EXCEPT ![c] =
                   IF link[p] = "ready" THEN call ELSE [call EXCEPT !.at = "failed"]]
            /\ UNCHANGED counters
       ELSE LET next == IncrWindow(p, counters[p]) IN
            /\ counters' = [counters EXCEPT ![p] = next]
            /\ calls' = [calls EXCEPT ![c] = Answered(call, next.count)]
    /\ UNCHANGED <<limiter, config, redis, process, link, admitted, outages>>

(* The script runs in Redis as one step.                                     *)
Execute(c) ==
    LET next == IncrWindow("redis", counters["redis"]) IN
    /\ calls[c].at = "sent"
    /\ redis = "up" /\ link[calls[c].server] = "ready"
    /\ counters' = [counters EXCEPT !["redis"] = next]
    /\ calls' = [calls EXCEPT ![c] = Answered(@, next.count)]
    /\ UNCHANGED <<limiter, config, redis, process, link, admitted, outages>>

LetThrough(call) ==
    IF call.at = "failed" THEN FailMode[limiter] = "open" ELSE call.count <= Limit

Decide(c) ==
    /\ calls[c].at \in {"counted", "failed"}
    /\ admitted' = IF LetThrough(calls[c]) /\ (calls[c].inWindow \/ calls[c].at = "failed")
                   THEN Counted(admitted) ELSE admitted
    /\ calls' = [calls EXCEPT ![c] = IdleCall]
    /\ UNCHANGED <<limiter, config, counters, redis, process, link, outages>>

(* commandTimeout, and maxRetriesPerRequest while the connection is away.    *)
CommandFails(c) ==
    /\ OnItsWay(calls[c]) /\ Store(calls[c].server) = "redis"
    /\ \/ link[calls[c].server] = "lost" /\ UNCHANGED outages
       \/ /\ link[calls[c].server] = "ready"
          /\ outages < MaxOutages /\ outages' = outages + 1
    /\ calls' = [calls EXCEPT ![c] = [WithoutAnswer(@) EXCEPT !.at = "failed"]]
    /\ UNCHANGED <<limiter, config, counters, redis, process, link, admitted>>

-----------------------------------------------------------------------------
(* Redis, connections and time                                               *)

(* A command without an answer is sent again on the next connection, whether *)
(* Redis has run it or not.                                                  *)
Disconnected(lost) ==
    /\ link' = [p \in Servers |-> IF p \in lost /\ link[p] = "ready" THEN "lost" ELSE link[p]]
    /\ calls' = [c \in Callers |->
                    IF OnItsWay(calls[c]) /\ calls[c].server \in lost
                    THEN WithoutAnswer(calls[c]) ELSE calls[c]]
    /\ outages < MaxOutages /\ outages' = outages + 1

ConnectionLost(p) ==
    /\ link[p] = "ready"
    /\ Disconnected({p})
    /\ UNCHANGED <<limiter, config, counters, redis, process, admitted>>

Reconnect(p) ==
    /\ link[p] = "lost" /\ redis = "up"
    /\ link' = [link EXCEPT ![p] = "ready"]
    /\ UNCHANGED <<limiter, config, counters, redis, process, calls, admitted, outages>>

(* A Redis without persistence comes back empty.                             *)
RedisCrash ==
    /\ redis = "up" /\ redis' = "down"
    /\ Disconnected({p \in Servers : Store(p) = "redis"})
    /\ \/ UNCHANGED <<counters, admitted>>
       \/ /\ counters' = [counters EXCEPT !["redis"] = Absent]
          /\ admitted' = 0
    /\ UNCHANGED <<limiter, config, process>>

RedisUp ==
    /\ redis = "down" /\ redis' = "up"
    /\ UNCHANGED <<limiter, config, counters, process, link, calls, admitted, outages>>

WindowEnds(s) == counters[s].ttl = 1

WindowTick ==
    /\ \E s \in DOMAIN counters : counters[s].ttl > 0
    /\ counters' = [s \in DOMAIN counters |-> Elapsed(s, counters[s])]
    /\ admitted' = IF WindowEnds("redis") THEN 0 ELSE admitted
    /\ calls' = [c \in Callers |->
                    IF OnItsWay(calls[c]) /\ WindowEnds(Store(calls[c].server))
                    THEN [calls[c] EXCEPT !.inWindow = FALSE] ELSE calls[c]]
    /\ UNCHANGED <<limiter, config, redis, process, link, outages>>

-----------------------------------------------------------------------------
(* Processes                                                                 *)

StartServer(p) ==
    /\ process[p] = "down"
    /\ ValidateProductionConfig /\ ~SmsStartupProblem
    /\ process' = [process EXCEPT ![p] = "starting"]
    /\ UNCHANGED <<limiter, config, counterVars, link, calls, outages>>

(* connectRedis answers before the process listens; a memory is ready.       *)
ConnectRedis(p) ==
    /\ process[p] = "starting"
    /\ \/ Store(p) = "redis" /\ redis = "up" /\ link' = [link EXCEPT ![p] = "ready"]
       \/ Store(p) # "redis" /\ UNCHANGED link
    /\ process' = [process EXCEPT ![p] = "up"]
    /\ UNCHANGED <<limiter, config, counterVars, calls, outages>>

(* Refused, or not ready within the connect timeout: the process exits.      *)
ConnectFails(p) ==
    /\ process[p] = "starting" /\ Store(p) = "redis"
    /\ process' = [process EXCEPT ![p] = "down"]
    /\ UNCHANGED <<limiter, config, counterVars, link, calls, outages>>

Shutdown(p) ==
    /\ process[p] = "up"
    /\ process' = [process EXCEPT ![p] = "stopping"]
    /\ UNCHANGED <<limiter, config, counterVars, link, calls, outages>>

Gone(p) ==
    /\ process' = [process EXCEPT ![p] = "down"]
    /\ link' = [link EXCEPT ![p] = "none"]
    /\ counters' = [counters EXCEPT ![p] = Absent]
    /\ calls' = [c \in Callers |-> IF calls[c].server = p THEN IdleCall ELSE calls[c]]
    /\ UNCHANGED <<limiter, config, redis, admitted, outages>>

(* server.close waits for the requests; Redis is closed after it.            *)
CloseRedis(p) ==
    /\ process[p] = "stopping"
    /\ \A c \in Callers : calls[c].server # p
    /\ Gone(p)

(* A crash, a second signal or the forced exit of a slow shutdown.           *)
Kill(p) == process[p] # "down" /\ Gone(p)

-----------------------------------------------------------------------------
(* Redis starts without the key, or with one left over the limit without     *)
(* expiry.                                                                   *)
LimitsInit ==
    /\ limiter \in Followed
    /\ config \in Configurations
    /\ \E stray \in {Absent, [count |-> Limit + 1, ttl |-> NoExpiry]} :
          counters = [s \in Servers \cup {"redis"} |-> IF s = "redis" THEN stray ELSE Absent]
    /\ redis = "up"
    /\ process = [p \in Servers |-> "down"]
    /\ link = [p \in Servers |-> "none"]
    /\ calls = [c \in Callers |-> IdleCall]
    /\ admitted = 0 /\ outages = 0

LimitsNext ==
    \/ \E c \in Callers, p \in Servers : Receive(c, p)
    \/ \E c \in Callers : Execute(c) \/ Decide(c) \/ CommandFails(c)
    \/ \E p \in Servers : ConnectionLost(p) \/ Reconnect(p)
    \/ RedisCrash \/ RedisUp
    \/ WindowTick
    \/ \E p \in Servers :
          \/ StartServer(p) \/ ConnectRedis(p) \/ ConnectFails(p)
          \/ Shutdown(p) \/ CloseRedis(p) \/ Kill(p)

LimitsSpec == LimitsInit /\ [][LimitsNext]_limitVars

(* Time passes.                                                              *)
LimitsFairness == WF_limitVars(WindowTick)

FairLimitsSpec == LimitsSpec /\ LimitsFairness

-----------------------------------------------------------------------------
(* Properties                                                                *)

(* In production the limiters of login, registration and passwords let no    *)
(* more than Limit attempts through in a window, over all servers, whatever  *)
(* fails: Redis, a connection, an answer that is lost after the count, a     *)
(* server that restarts. A Redis that comes back empty starts a new window.  *)
GuessesWithinLimit ==
    Production /\ limiter \in FailClosed => admitted <= Limit

(* Starting and stopping servers costs no request its count: a limiter fails *)
(* only after an outage, never because a client is not connected yet or is   *)
(* closed already.                                                           *)
FailuresNeedAnOutage == \A c \in Callers : calls[c].at = "failed" => outages > 0

(* The limiter is strict under failures and exact without them.              *)
LimitsAreKept == GuessesWithinLimit /\ FailuresNeedAnOutage

Refused(s) ==
    \E c \in Callers : /\ calls[c].at = "counted" /\ calls[c].count > Limit
                       /\ Store(calls[c].server) = s

(* Nobody is locked out for ever: a key that refuses a request has a window  *)
(* that ends, even a stray key without expiry and however often it is hit.   *)
WindowsEnd ==
    \A s \in Servers \cup {"redis"} : Refused(s) ~> Live(counters[s]).count <= Limit
=============================================================================
