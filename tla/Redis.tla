------------------------------- MODULE Redis -------------------------------
(***************************************************************************)
(* The six checks of internal/checks/redis/module.go.  Redis and Valkey    *)
(* may both be on a host, but only one of them is judged: the first of     *)
(* which the program finds a trace.  A source that stops to answer may     *)
(* thus turn the checks to the configuration of the other engine.          *)
(*                                                                         *)
(* The facts in RedisScale are those of the engine h.own.  The other one   *)
(* is configured as h.other says, which does not change.                   *)
(***************************************************************************)
EXTENDS Ratings

Engines == {"redis", "valkey"}

Server(e) == CASE e = "redis" -> "redis-server" [] e = "valkey" -> "valkey-server"
Client(e) == CASE e = "redis" -> "redis-cli"    [] e = "valkey" -> "valkey-cli"
Conf(e)   == CASE e = "redis" -> "redis.conf"   [] e = "valkey" -> "valkey.conf"

RedisCommands == {"pgrep", "redis-server", "redis-cli", "valkey-server", "valkey-cli"}
RedisFiles    == {"redis.conf", "valkey.conf"}

(* A `save ""` that switches off the points set before it does not count.  *)
RedisScale ==
  [bindTo     |-> <<"private", "unset", "public">>,
   protected  |-> <<"yes", "unset", "no">>,
   maxmemory  |-> <<"set", "zero", "unset">>,
   appendonly |-> <<"yes", "no">>,
   save       |-> <<"points", "switched-off", "none">>,
   auth       |-> <<"acl", "password", "none">>]

RedisPresent(h, p, e, source) == e \in h.installed /\ p[source] # "missing"

(* detectEngine asks the unit list, the processes, the clients, the        *)
(* servers and the configuration files, each for redis and then valkey.    *)
TraceFoundAt(h, p, e) ==
  IF p["unit list"] = "ok" /\ e \in h.running  THEN 1
  ELSE IF p["pgrep"] = "ok" /\ e \in h.running THEN 2
  ELSE IF RedisPresent(h, p, e, Client(e))     THEN 3
  ELSE IF RedisPresent(h, p, e, Server(e))     THEN 4
  ELSE IF RedisPresent(h, p, e, Conf(e))       THEN 5
                                               ELSE 6

EngineJudged(h, p) ==
  IF h.os = "none" \/ (\A e \in Engines : TraceFoundAt(h, p, e) = 6) THEN "none"
  ELSE IF TraceFoundAt(h, p, "redis") <= TraceFoundAt(h, p, "valkey")
       THEN "redis" ELSE "valkey"

RedisSetting(h, p, fact) ==
  IF EngineJudged(h, p) = h.own THEN h[fact] ELSE h.other[fact]

(* loadConfigForResult: without the file there is nothing to judge.        *)
WhenRedisConfigured(h, p, rating) ==
  LET e == EngineJudged(h, p)
  IN  IF e = "none" \/ ~ RedisPresent(h, p, e, Conf(e)) THEN NotApplicable
      ELSE IF p[Conf(e)] = "broken"                     THEN Unverified("medium")
                                                        ELSE rating

(* The server is asked by its binary, or else by its client.               *)
RedisVersion(h, p) ==
  LET e == EngineJudged(h, p)
  IN  IF e = "none" THEN NotApplicable
      ELSE IF \/ e \in h.installed /\ p[Server(e)] = "ok"
              \/ e \in h.installed /\ e \in h.running /\ p[Client(e)] = "ok"
           THEN Unseen("info", "info") ELSE Unverified("medium")

(* Private addresses are as good as the loopback.                          *)
RedisBindLocalhost(h, p) ==
  WhenRedisConfigured(h, p,
    CASE RedisSetting(h, p, "bindTo") = "unset"  -> Shown("warn", "medium")
      [] RedisSetting(h, p, "bindTo") = "public" -> Shown("warn", "high")
      [] OTHER                                   -> Shown("pass", "high"))

ProtectedMode(h, p) ==
  WhenRedisConfigured(h, p, IF RedisSetting(h, p, "protected") = "no"
                            THEN Shown("warn", "high") ELSE Shown("pass", "high"))

MaxMemory(h, p) ==
  WhenRedisConfigured(h, p, IF RedisSetting(h, p, "maxmemory") = "set"
                            THEN Shown("pass", "medium") ELSE Shown("warn", "medium"))

Persistence(h, p) ==
  WhenRedisConfigured(h, p, IF \/ RedisSetting(h, p, "appendonly") = "yes"
                               \/ RedisSetting(h, p, "save") # "none"
                            THEN Shown("pass", "medium") ELSE Shown("warn", "medium"))

Authentication(h, p) ==
  WhenRedisConfigured(h, p,
    IF RedisSetting(h, p, "auth") # "none"          THEN Shown("pass", "high")
    ELSE IF RedisSetting(h, p, "bindTo") = "public" THEN Shown("warn", "critical")
                                                    ELSE Shown("warn", "high"))

RedisRating(h, p) ==
  [version        |-> RedisVersion(h, p),
   bind_localhost |-> RedisBindLocalhost(h, p),
   protected_mode |-> ProtectedMode(h, p),
   maxmemory      |-> MaxMemory(h, p),
   persistence    |-> Persistence(h, p),
   authentication |-> Authentication(h, p)]
=============================================================================
