--------------------------- MODULE MCCommandTable ---------------------------
(***************************************************************************)
(* redisCommandTable as written in server.c:150-327, one row per entry in  *)
(* source order.  This build registers only get and del; the other rows    *)
(* are commented out in place, and are kept here because they are the      *)
(* table populateCommandTable and getKeysUsingCommandTable are written     *)
(* for: every key-position shape and every flag letter occurs among them.  *)
(***************************************************************************)
EXTENDS CommandTable

SourceTable == <<
     [name |-> "get", arity |-> 2, sflags |-> <<"r", "F">>, getkeys |-> FALSE, firstkey |-> 1, lastkey |-> 1, keystep |-> 1],
     [name |-> "set", arity |-> -3, sflags |-> <<"w", "m">>, getkeys |-> FALSE, firstkey |-> 1, lastkey |-> 1, keystep |-> 1],
     [name |-> "setnx", arity |-> 3, sflags |-> <<"w", "m", "F">>, getkeys |-> FALSE, firstkey |-> 1, lastkey |-> 1, keystep |-> 1],
     [name |-> "setex", arity |-> 4, sflags |-> <<"w", "m">>, getkeys |-> FALSE, firstkey |-> 1, lastkey |-> 1, keystep |-> 1],
     [name |-> "psetex", arity |-> 4, sflags |-> <<"w", "m">>, getkeys |-> FALSE, firstkey |-> 1, lastkey |-> 1, keystep |-> 1],
     [name |-> "append", arity |-> 3, sflags |-> <<"w", "m">>, getkeys |-> FALSE, firstkey |-> 1, lastkey |-> 1, keystep |-> 1],
     [name |-> "strlen", arity |-> 2, sflags |-> <<"r", "F">>, getkeys |-> FALSE, firstkey |-> 1, lastkey |-> 1, keystep |-> 1],
     [name |-> "del", arity |-> -2, sflags |-> <<"w">>, getkeys |-> FALSE, firstkey |-> 1, lastkey |-> -1, keystep |-> 1],
     [name |-> "exists", arity |-> -2, sflags |-> <<"r", "F">>, getkeys |-> FALSE, firstkey |-> 1, lastkey |-> -1, keystep |-> 1],
     [name |-> "setbit", arity |-> 4, sflags |-> <<"w", "m">>, getkeys |-> FALSE, firstkey |-> 1, lastkey |-> 1, keystep |-> 1],
     [name |-> "getbit", arity |-> 3, sflags |-> <<"r", "F">>, getkeys |-> FALSE, firstkey |-> 1, lastkey |-> 1, keystep |-> 1],
     [name |-> "bitfield", arity |-> -2, sflags |-> <<"w", "m">>, getkeys |-> FALSE, firstkey |-> 1, lastkey |-> 1, keystep |-> 1],
     [name |-> "setrange", arity |-> 4, sflags |-> <<"w", "m">>, getkeys |-> FALSE, firstkey |-> 1, lastkey |-> 1, keystep |-> 1],
     [name |-> "getrange", arity |-> 4, sflags |-> <<"r">>, getkeys |-> FALSE, firstkey |-> 1, lastkey |-> 1, keystep |-> 1],
     [name |-> "substr", arity |-> 4, sflags |-> <<"r">>, getkeys |-> FALSE, firstkey |-> 1, lastkey |-> 1, keystep |-> 1],
     [name |-> "incr", arity |-> 2, sflags |-> <<"w", "m", "F">>, getkeys |-> FALSE, firstkey |-> 1, lastkey |-> 1, keystep |-> 1],
     [name |-> "decr", arity |-> 2, sflags |-> <<"w", "m", "F">>, getkeys |-> FALSE, firstkey |-> 1, lastkey |-> 1, keystep |-> 1],
     [name |-> "mget", arity |-> -2, sflags |-> <<"r">>, getkeys |-> FALSE, firstkey |-> 1, lastkey |-> -1, keystep |-> 1],
     [name |-> "rpush", arity |-> -3, sflags |-> <<"w", "m", "F">>, getkeys |-> FALSE, firstkey |-> 1, lastkey |-> 1, keystep |-> 1],
     [name |-> "lpush", arity |-> -3, sflags |-> <<"w", "m", "F">>, getkeys |-> FALSE, firstkey |-> 1, lastkey |-> 1, keystep |-> 1],
     [name |-> "rpushx", arity |-> 3, sflags |-> <<"w", "m", "F">>, getkeys |-> FALSE, firstkey |-> 1, lastkey |-> 1, keystep |-> 1],
     [name |-> "lpushx", arity |-> 3, sflags |-> <<"w", "m", "F">>, getkeys |-> FALSE, firstkey |-> 1, lastkey |-> 1, keystep |-> 1],
     [name |-> "linsert", arity |-> 5, sflags |-> <<"w", "m">>, getkeys |-> FALSE, firstkey |-> 1, lastkey |-> 1, keystep |-> 1],
     [name |-> "rpop", arity |-> 2, sflags |-> <<"w", "F">>, getkeys |-> FALSE, firstkey |-> 1, lastkey |-> 1, keystep |-> 1],
     [name |-> "lpop", arity |-> 2, sflags |-> <<"w", "F">>, getkeys |-> FALSE, firstkey |-> 1, lastkey |-> 1, keystep |-> 1],
     [name |-> "brpop", arity |-> -3, sflags |-> <<"w", "s">>, getkeys |-> FALSE, firstkey |-> 1, lastkey |-> -2, keystep |-> 1],
     [name |-> "brpoplpush", arity |-> 4, sflags |-> <<"w", "m", "s">>, getkeys |-> FALSE, firstkey |-> 1, lastkey |-> 2, keystep |-> 1],
     [name |-> "blpop", arity |-> -3, sflags |-> <<"w", "s">>, getkeys |-> FALSE, firstkey |-> 1, lastkey |-> -2, keystep |-> 1],
     [name |-> "llen", arity |-> 2, sflags |-> <<"r", "F">>, getkeys |-> FALSE, firstkey |-> 1, lastkey |-> 1, keystep |-> 1],
     [name |-> "lindex", arity |-> 3, sflags |-> <<"r">>, getkeys |-> FALSE, firstkey |-> 1, lastkey |-> 1, keystep |-> 1],
     [name |-> "lset", arity |-> 4, sflags |-> <<"w", "m">>, getkeys |-> FALSE, firstkey |-> 1, lastkey |-> 1, keystep |-> 1],
     [name |-> "lrange", arity |-> 4, sflags |-> <<"r">>, getkeys |-> FALSE, firstkey |-> 1, lastkey |-> 1, keystep |-> 1],
     [name |-> "ltrim", arity |-> 4, sflags |-> <<"w">>, getkeys |-> FALSE, firstkey |-> 1, lastkey |-> 1, keystep |-> 1],
     [name |-> "lrem", arity |-> 4, sflags |-> <<"w">>, getkeys |-> FALSE, firstkey |-> 1, lastkey |-> 1, keystep |-> 1],
     [name |-> "rpoplpush", arity |-> 3, sflags |-> <<"w", "m">>, getkeys |-> FALSE, firstkey |-> 1, lastkey |-> 2, keystep |-> 1],
     [name |-> "sadd", arity |-> -3, sflags |-> <<"w", "m", "F">>, getkeys |-> FALSE, firstkey |-> 1, lastkey |-> 1, keystep |-> 1],
     [name |-> "srem", arity |-> -3, sflags |-> <<"w", "F">>, getkeys |-> FALSE, firstkey |-> 1, lastkey |-> 1, keystep |-> 1],
     [name |-> "smove", arity |-> 4, sflags |-> <<"w", "F">>, getkeys |-> FALSE, firstkey |-> 1, lastkey |-> 2, keystep |-> 1],
     [name |-> "sismember", arity |-> 3, sflags |-> <<"r", "F">>, getkeys |-> FALSE, firstkey |-> 1, lastkey |-> 1, keystep |-> 1],
     [name |-> "scard", arity |-> 2, sflags |-> <<"r", "F">>, getkeys |-> FALSE, firstkey |-> 1, lastkey |-> 1, keystep |-> 1],
     [name |-> "spop", arity |-> -2, sflags |-> <<"w", "R", "F">>, getkeys |-> FALSE, firstkey |-> 1, lastkey |-> 1, keystep |-> 1],
     [name |-> "srandmember", arity |-> -2, sflags |-> <<"r", "R">>, getkeys |-> FALSE, firstkey |-> 1, lastkey |-> 1, keystep |-> 1],
     [name |-> "sinter", arity |-> -2, sflags |-> <<"r", "S">>, getkeys |-> FALSE, firstkey |-> 1, lastkey |-> -1, keystep |-> 1],
     [name |-> "sinterstore", arity |-> -3, sflags |-> <<"w", "m">>, getkeys |-> FALSE, firstkey |-> 1, lastkey |-> -1, keystep |-> 1],
     [name |-> "sunion", arity |-> -2, sflags |-> <<"r", "S">>, getkeys |-> FALSE, firstkey |-> 1, lastkey |-> -1, keystep |-> 1],
     [name |-> "sunionstore", arity |-> -3, sflags |-> <<"w", "m">>, getkeys |-> FALSE, firstkey |-> 1, lastkey |-> -1, keystep |-> 1],
     [name |-> "sdiff", arity |-> -2, sflags |-> <<"r", "S">>, getkeys |-> FALSE, firstkey |-> 1, lastkey |-> -1, keystep |-> 1],
     [name |-> "sdiffstore", arity |-> -3, sflags |-> <<"w", "m">>, getkeys |-> FALSE, firstkey |-> 1, lastkey |-> -1, keystep |-> 1],
     [name |-> "smembers", arity |-> 2, sflags |-> <<"r", "S">>, getkeys |-> FALSE, firstkey |-> 1, lastkey |-> 1, keystep |-> 1],
     [name |-> "sscan", arity |-> -3, sflags |-> <<"r", "R">>, getkeys |-> FALSE, firstkey |-> 1, lastkey |-> 1, keystep |-> 1],
     [name |-> "zadd", arity |-> -4, sflags |-> <<"w", "m", "F">>, getkeys |-> FALSE, firstkey |-> 1, lastkey |-> 1, keystep |-> 1],
     [name |-> "zincrby", arity |-> 4, sflags |-> <<"w", "m", "F">>, getkeys |-> FALSE, firstkey |-> 1, lastkey |-> 1, keystep |-> 1],
     [name |-> "zrem", arity |-> -3, sflags |-> <<"w", "F">>, getkeys |-> FALSE, firstkey |-> 1, lastkey |-> 1, keystep |-> 1],
     [name |-> "zremrangebyscore", arity |-> 4, sflags |-> <<"w">>, getkeys |-> FALSE, firstkey |-> 1, lastkey |-> 1, keystep |-> 1],
     [name |-> "zremrangebyrank", arity |-> 4, sflags |-> <<"w">>, getkeys |-> FALSE, firstkey |-> 1, lastkey |-> 1, keystep |-> 1],
     [name |-> "zremrangebylex", arity |-> 4, sflags |-> <<"w">>, getkeys |-> FALSE, firstkey |-> 1, lastkey |-> 1, keystep |-> 1],
     [name |-> "zunionstore", arity |-> -4, sflags |-> <<"w", "m">>, getkeys |-> TRUE, firstkey |-> 0, lastkey |-> 0, keystep |-> 0],
     [name |-> "zinterstore", arity |-> -4, sflags |-> <<"w", "m">>, getkeys |-> TRUE, firstkey |-> 0, lastkey |-> 0, keystep |-> 0],
     [name |-> "zrange", arity |-> -4, sflags |-> <<"r">>, getkeys |-> FALSE, firstkey |-> 1, lastkey |-> 1, keystep |-> 1],
     [name |-> "zrangebyscore", arity |-> -4, sflags |-> <<"r">>, getkeys |-> FALSE, firstkey |-> 1, lastkey |-> 1, keystep |-> 1],
     [name |-> "zrevrangebyscore", arity |-> -4, sflags |-> <<"r">>, getkeys |-> FALSE, firstkey |-> 1, lastkey |-> 1, keystep |-> 1],
     [name |-> "zrangebylex", arity |-> -4, sflags |-> <<"r">>, getkeys |-> FALSE, firstkey |-> 1, lastkey |-> 1, keystep |-> 1],
     [name |-> "zrevrangebylex", arity |-> -4, sflags |-> <<"r">>, getkeys |-> FALSE, firstkey |-> 1, lastkey |-> 1, keystep |-> 1],
     [name |-> "zcount", arity |-> 4, sflags |-> <<"r", "F">>, getkeys |-> FALSE, firstkey |-> 1, lastkey |-> 1, keystep |-> 1],
     [name |-> "zlexcount", arity |-> 4, sflags |-> <<"r", "F">>, getkeys |-> FALSE, firstkey |-> 1, lastkey |-> 1, keystep |-> 1],
     [name |-> "zrevrange", arity |-> -4, sflags |-> <<"r">>, getkeys |-> FALSE, firstkey |-> 1, lastkey |-> 1, keystep |-> 1],
     [name |-> "zcard", arity |-> 2, sflags |-> <<"r", "F">>, getkeys |-> FALSE, firstkey |-> 1, lastkey |-> 1, keystep |-> 1],
     [name |-> "zscore", arity |-> 3, sflags |-> <<"r", "F">>, getkeys |-> FALSE, firstkey |-> 1, lastkey |-> 1, keystep |-> 1],
     [name |-> "zrank", arity |-> 3, sflags |-> <<"r", "F">>, getkeys |-> FALSE, firstkey |-> 1, lastkey |-> 1, keystep |-> 1],
     [name |-> "zrevrank", arity |-> 3, sflags |-> <<"r", "F">>, getkeys |-> FALSE, firstkey |-> 1, lastkey |-> 1, keystep |-> 1],
     [name |-> "zscan", arity |-> -3, sflags |-> <<"r", "R">>, getkeys |-> FALSE, firstkey |-> 1, lastkey |-> 1, keystep |-> 1],
     [name |-> "hset", arity |-> 4, sflags |-> <<"w", "m", "F">>, getkeys |-> FALSE, firstkey |-> 1, lastkey |-> 1, keystep |-> 1],
     [name |-> "hsetnx", arity |-> 4, sflags |-> <<"w", "m", "F">>, getkeys |-> FALSE, firstkey |-> 1, lastkey |-> 1, keystep |-> 1],
     [name |-> "hget", arity |-> 3, sflags |-> <<"r", "F">>, getkeys |-> FALSE, firstkey |-> 1, lastkey |-> 1, keystep |-> 1],
     [name |-> "hmset", arity |-> -4, sflags |-> <<"w", "m">>, getkeys |-> FALSE, firstkey |-> 1, lastkey |-> 1, keystep |-> 1],
     [name |-> "hmget", arity |-> -3, sflags |-> <<"r">>, getkeys |-> FALSE, firstkey |-> 1, lastkey |-> 1, keystep |-> 1],
     [name |-> "hincrby", arity |-> 4, sflags |-> <<"w", "m", "F">>, getkeys |-> FALSE, firstkey |-> 1, lastkey |-> 1, keystep |-> 1],
     [name |-> "hincrbyfloat", arity |-> 4, sflags |-> <<"w", "m", "F">>, getkeys |-> FALSE, firstkey |-> 1, lastkey |-> 1, keystep |-> 1],
     [name |-> "hdel", arity |-> -3, sflags |-> <<"w", "F">>, getkeys |-> FALSE, firstkey |-> 1, lastkey |-> 1, keystep |-> 1],
     [name |-> "hlen", arity |-> 2, sflags |-> <<"r", "F">>, getkeys |-> FALSE, firstkey |-> 1, lastkey |-> 1, keystep |-> 1],
     [name |-> "hstrlen", arity |-> 3, sflags |-> <<"r", "F">>, getkeys |-> FALSE, firstkey |-> 1, lastkey |-> 1, keystep |-> 1],
     [name |-> "hkeys", arity |-> 2, sflags |-> <<"r", "S">>, getkeys |-> FALSE, firstkey |-> 1, lastkey |-> 1, keystep |-> 1],
     [name |-> "hvals", arity |-> 2, sflags |-> <<"r", "S">>, getkeys |-> FALSE, firstkey |-> 1, lastkey |-> 1, keystep |-> 1],
     [name |-> "hgetall", arity |-> 2, sflags |-> <<"r">>, getkeys |-> FALSE, firstkey |-> 1, lastkey |-> 1, keystep |-> 1],
     [name |-> "hexists", arity |-> 3, sflags |-> <<"r", "F">>, getkeys |-> FALSE, firstkey |-> 1, lastkey |-> 1, keystep |-> 1],
     [name |-> "hscan", arity |-> -3, sflags |-> <<"r", "R">>, getkeys |-> FALSE, firstkey |-> 1, lastkey |-> 1, keystep |-> 1],
     [name |-> "incrby", arity |-> 3, sflags |-> <<"w", "m", "F">>, getkeys |-> FALSE, firstkey |-> 1, lastkey |-> 1, keystep |-> 1],
     [name |-> "decrby", arity |-> 3, sflags |-> <<"w", "m", "F">>, getkeys |-> FALSE, firstkey |-> 1, lastkey |-> 1, keystep |-> 1],
     [name |-> "incrbyfloat", arity |-> 3, sflags |-> <<"w", "m", "F">>, getkeys |-> FALSE, firstkey |-> 1, lastkey |-> 1, keystep |-> 1],
     [name |-> "getset", arity |-> 3, sflags |-> <<"w", "m">>, getkeys |-> FALSE, firstkey |-> 1, lastkey |-> 1, keystep |-> 1],
     [name |-> "mset", arity |-> -3, sflags |-> <<"w", "m">>, getkeys |-> FALSE, firstkey |-> 1, lastkey |-> -1, keystep |-> 2],
     [name |-> "msetnx", arity |-> -3, sflags |-> <<"w", "m">>, getkeys |-> FALSE, firstkey |-> 1, lastkey |-> -1, keystep |-> 2],
     [name |-> "randomkey", arity |-> 1, sflags |-> <<"r", "R">>, getkeys |-> FALSE, firstkey |-> 0, lastkey |-> 0, keystep |-> 0],
     [name |-> "select", arity |-> 2, sflags |-> <<"l", "F">>, getkeys |-> FALSE, firstkey |-> 0, lastkey |-> 0, keystep |-> 0],
     [name |-> "move", arity |-> 3, sflags |-> <<"w", "F">>, getkeys |-> FALSE, firstkey |-> 1, lastkey |-> 1, keystep |-> 1],
     [name |-> "rename", arity |-> 3, sflags |-> <<"w">>, getkeys |-> FALSE, firstkey |-> 1, lastkey |-> 2, keystep |-> 1],
     [name |-> "renamenx", arity |-> 3, sflags |-> <<"w", "F">>, getkeys |-> FALSE, firstkey |-> 1, lastkey |-> 2, keystep |-> 1],
     [name |-> "expire", arity |-> 3, sflags |-> <<"w", "F">>, getkeys |-> FALSE, firstkey |-> 1, lastkey |-> 1, keystep |-> 1],
     [name |-> "expireat", arity |-> 3, sflags |-> <<"w", "F">>, getkeys |-> FALSE, firstkey |-> 1, lastkey |-> 1, keystep |-> 1],
     [name |-> "pexpire", arity |-> 3, sflags |-> <<"w", "F">>, getkeys |-> FALSE, firstkey |-> 1, lastkey |-> 1, keystep |-> 1],
     [name |-> "pexpireat", arity |-> 3, sflags |-> <<"w", "F">>, getkeys |-> FALSE, firstkey |-> 1, lastkey |-> 1, keystep |-> 1],
     [name |-> "keys", arity |-> 2, sflags |-> <<"r", "S">>, getkeys |-> FALSE, firstkey |-> 0, lastkey |-> 0, keystep |-> 0],
     [name |-> "scan", arity |-> -2, sflags |-> <<"r", "R">>, getkeys |-> FALSE, firstkey |-> 0, lastkey |-> 0, keystep |-> 0],
     [name |-> "dbsize", arity |-> 1, sflags |-> <<"r", "F">>, getkeys |-> FALSE, firstkey |-> 0, lastkey |-> 0, keystep |-> 0],
     [name |-> "auth", arity |-> 2, sflags |-> <<"s", "l", "t", "F">>, getkeys |-> FALSE, firstkey |-> 0, lastkey |-> 0, keystep |-> 0],
     [name |-> "ping", arity |-> -1, sflags |-> <<"t", "F">>, getkeys |-> FALSE, firstkey |-> 0, lastkey |-> 0, keystep |-> 0],
     [name |-> "echo", arity |-> 2, sflags |-> <<"F">>, getkeys |-> FALSE, firstkey |-> 0, lastkey |-> 0, keystep |-> 0],
     [name |-> "save", arity |-> 1, sflags |-> <<"a", "s">>, getkeys |-> FALSE, firstkey |-> 0, lastkey |-> 0, keystep |-> 0],
     [name |-> "bgsave", arity |-> -1, sflags |-> <<"a">>, getkeys |-> FALSE, firstkey |-> 0, lastkey |-> 0, keystep |-> 0],
     [name |-> "bgrewriteaof", arity |-> 1, sflags |-> <<"a">>, getkeys |-> FALSE, firstkey |-> 0, lastkey |-> 0, keystep |-> 0],
     [name |-> "shutdown", arity |-> -1, sflags |-> <<"a", "l", "t">>, getkeys |-> FALSE, firstkey |-> 0, lastkey |-> 0, keystep |-> 0],
     [name |-> "lastsave", arity |-> 1, sflags |-> <<"R", "F">>, getkeys |-> FALSE, firstkey |-> 0, lastkey |-> 0, keystep |-> 0],
     [name |-> "type", arity |-> 2, sflags |-> <<"r", "F">>, getkeys |-> FALSE, firstkey |-> 1, lastkey |-> 1, keystep |-> 1],
     [name |-> "multi", arity |-> 1, sflags |-> <<"s", "F">>, getkeys |-> FALSE, firstkey |-> 0, lastkey |-> 0, keystep |-> 0],
     [name |-> "exec", arity |-> 1, sflags |-> <<"s", "M">>, getkeys |-> FALSE, firstkey |-> 0, lastkey |-> 0, keystep |-> 0],
     [name |-> "discard", arity |-> 1, sflags |-> <<"s", "F">>, getkeys |-> FALSE, firstkey |-> 0, lastkey |-> 0, keystep |-> 0],
     [name |-> "sync", arity |-> 1, sflags |-> <<"a", "r", "s">>, getkeys |-> FALSE, firstkey |-> 0, lastkey |-> 0, keystep |-> 0],
     [name |-> "psync", arity |-> 3, sflags |-> <<"a", "r", "s">>, getkeys |-> FALSE, firstkey |-> 0, lastkey |-> 0, keystep |-> 0],
     [name |-> "replconf", arity |-> -1, sflags |-> <<"a", "s", "l", "t">>, getkeys |-> FALSE, firstkey |-> 0, lastkey |-> 0, keystep |-> 0],
     [name |-> "flushdb", arity |-> 1, sflags |-> <<"w">>, getkeys |-> FALSE, firstkey |-> 0, lastkey |-> 0, keystep |-> 0],
     [name |-> "flushall", arity |-> 1, sflags |-> <<"w">>, getkeys |-> FALSE, firstkey |-> 0, lastkey |-> 0, keystep |-> 0],
     [name |-> "sort", arity |-> -2, sflags |-> <<"w", "m">>, getkeys |-> TRUE, firstkey |-> 1, lastkey |-> 1, keystep |-> 1],
     [name |-> "info", arity |-> -1, sflags |-> <<"l", "t">>, getkeys |-> FALSE, firstkey |-> 0, lastkey |-> 0, keystep |-> 0],
     [name |-> "monitor", arity |-> 1, sflags |-> <<"a", "s">>, getkeys |-> FALSE, firstkey |-> 0, lastkey |-> 0, keystep |-> 0],
     [name |-> "ttl", arity |-> 2, sflags |-> <<"r", "F">>, getkeys |-> FALSE, firstkey |-> 1, lastkey |-> 1, keystep |-> 1],
     [name |-> "touch", arity |-> -2, sflags |-> <<"r", "F">>, getkeys |-> FALSE, firstkey |-> 1, lastkey |-> 1, keystep |-> 1],
     [name |-> "pttl", arity |-> 2, sflags |-> <<"r", "F">>, getkeys |-> FALSE, firstkey |-> 1, lastkey |-> 1, keystep |-> 1],
     [name |-> "persist", arity |-> 2, sflags |-> <<"w", "F">>, getkeys |-> FALSE, firstkey |-> 1, lastkey |-> 1, keystep |-> 1],
     [name |-> "slaveof", arity |-> 3, sflags |-> <<"a", "s", "t">>, getkeys |-> FALSE, firstkey |-> 0, lastkey |-> 0, keystep |-> 0],
     [name |-> "role", arity |-> 1, sflags |-> <<"l", "s", "t">>, getkeys |-> FALSE, firstkey |-> 0, lastkey |-> 0, keystep |-> 0],
     [name |-> "debug", arity |-> -1, sflags |-> <<"a", "s">>, getkeys |-> FALSE, firstkey |-> 0, lastkey |-> 0, keystep |-> 0],
     [name |-> "config", arity |-> -2, sflags |-> <<"l", "a", "t">>, getkeys |-> FALSE, firstkey |-> 0, lastkey |-> 0, keystep |-> 0],
     [name |-> "subscribe", arity |-> -2, sflags |-> <<"p", "s", "l", "t">>, getkeys |-> FALSE, firstkey |-> 0, lastkey |-> 0, keystep |-> 0],
     [name |-> "unsubscribe", arity |-> -1, sflags |-> <<"p", "s", "l", "t">>, getkeys |-> FALSE, firstkey |-> 0, lastkey |-> 0, keystep |-> 0],
     [name |-> "psubscribe", arity |-> -2, sflags |-> <<"p", "s", "l", "t">>, getkeys |-> FALSE, firstkey |-> 0, lastkey |-> 0, keystep |-> 0],
     [name |-> "punsubscribe", arity |-> -1, sflags |-> <<"p", "s", "l", "t">>, getkeys |-> FALSE, firstkey |-> 0, lastkey |-> 0, keystep |-> 0],
     [name |-> "publish", arity |-> 3, sflags |-> <<"p", "l", "t", "F">>, getkeys |-> FALSE, firstkey |-> 0, lastkey |-> 0, keystep |-> 0],
     [name |-> "pubsub", arity |-> -2, sflags |-> <<"p", "l", "t", "R">>, getkeys |-> FALSE, firstkey |-> 0, lastkey |-> 0, keystep |-> 0],
     [name |-> "watch", arity |-> -2, sflags |-> <<"s", "F">>, getkeys |-> FALSE, firstkey |-> 1, lastkey |-> -1, keystep |-> 1],
     [name |-> "unwatch", arity |-> 1, sflags |-> <<"s", "F">>, getkeys |-> FALSE, firstkey |-> 0, lastkey |-> 0, keystep |-> 0],
     [name |-> "cluster", arity |-> -2, sflags |-> <<"a">>, getkeys |-> FALSE, firstkey |-> 0, lastkey |-> 0, keystep |-> 0],
     [name |-> "restore", arity |-> -4, sflags |-> <<"w", "m">>, getkeys |-> FALSE, firstkey |-> 1, lastkey |-> 1, keystep |-> 1],
     [name |-> "restore-asking", arity |-> -4, sflags |-> <<"w", "m", "k">>, getkeys |-> FALSE, firstkey |-> 1, lastkey |-> 1, keystep |-> 1],
     [name |-> "migrate", arity |-> -6, sflags |-> <<"w">>, getkeys |-> TRUE, firstkey |-> 0, lastkey |-> 0, keystep |-> 0],
     [name |-> "asking", arity |-> 1, sflags |-> <<"F">>, getkeys |-> FALSE, firstkey |-> 0, lastkey |-> 0, keystep |-> 0],
     [name |-> "readonly", arity |-> 1, sflags |-> <<"F">>, getkeys |-> FALSE, firstkey |-> 0, lastkey |-> 0, keystep |-> 0],
     [name |-> "readwrite", arity |-> 1, sflags |-> <<"F">>, getkeys |-> FALSE, firstkey |-> 0, lastkey |-> 0, keystep |-> 0],
     [name |-> "dump", arity |-> 2, sflags |-> <<"r">>, getkeys |-> FALSE, firstkey |-> 1, lastkey |-> 1, keystep |-> 1],
     [name |-> "object", arity |-> 3, sflags |-> <<"r">>, getkeys |-> FALSE, firstkey |-> 2, lastkey |-> 2, keystep |-> 2],
     [name |-> "client", arity |-> -2, sflags |-> <<"a", "s">>, getkeys |-> FALSE, firstkey |-> 0, lastkey |-> 0, keystep |-> 0],
     [name |-> "eval", arity |-> -3, sflags |-> <<"s">>, getkeys |-> TRUE, firstkey |-> 0, lastkey |-> 0, keystep |-> 0],
     [name |-> "evalsha", arity |-> -3, sflags |-> <<"s">>, getkeys |-> TRUE, firstkey |-> 0, lastkey |-> 0, keystep |-> 0],
     [name |-> "slowlog", arity |-> -2, sflags |-> <<"a">>, getkeys |-> FALSE, firstkey |-> 0, lastkey |-> 0, keystep |-> 0],
     [name |-> "script", arity |-> -2, sflags |-> <<"s">>, getkeys |-> FALSE, firstkey |-> 0, lastkey |-> 0, keystep |-> 0],
     [name |-> "time", arity |-> 1, sflags |-> <<"R", "F">>, getkeys |-> FALSE, firstkey |-> 0, lastkey |-> 0, keystep |-> 0],
     [name |-> "bitop", arity |-> -4, sflags |-> <<"w", "m">>, getkeys |-> FALSE, firstkey |-> 2, lastkey |-> -1, keystep |-> 1],
     [name |-> "bitcount", arity |-> -2, sflags |-> <<"r">>, getkeys |-> FALSE, firstkey |-> 1, lastkey |-> 1, keystep |-> 1],
     [name |-> "bitpos", arity |-> -3, sflags |-> <<"r">>, getkeys |-> FALSE, firstkey |-> 1, lastkey |-> 1, keystep |-> 1],
     [name |-> "wait", arity |-> 3, sflags |-> <<"s">>, getkeys |-> FALSE, firstkey |-> 0, lastkey |-> 0, keystep |-> 0],
     [name |-> "command", arity |-> 0, sflags |-> <<"l", "t">>, getkeys |-> FALSE, firstkey |-> 0, lastkey |-> 0, keystep |-> 0],
     [name |-> "geoadd", arity |-> -5, sflags |-> <<"w", "m">>, getkeys |-> FALSE, firstkey |-> 1, lastkey |-> 1, keystep |-> 1],
     [name |-> "georadius", arity |-> -6, sflags |-> <<"w">>, getkeys |-> TRUE, firstkey |-> 1, lastkey |-> 1, keystep |-> 1],
     [name |-> "georadius_ro", arity |-> -6, sflags |-> <<"r">>, getkeys |-> TRUE, firstkey |-> 1, lastkey |-> 1, keystep |-> 1],
     [name |-> "georadiusbymember", arity |-> -5, sflags |-> <<"w">>, getkeys |-> TRUE, firstkey |-> 1, lastkey |-> 1, keystep |-> 1],
     [name |-> "georadiusbymember_ro", arity |-> -5, sflags |-> <<"r">>, getkeys |-> TRUE, firstkey |-> 1, lastkey |-> 1, keystep |-> 1],
     [name |-> "geohash", arity |-> -2, sflags |-> <<"r">>, getkeys |-> FALSE, firstkey |-> 1, lastkey |-> 1, keystep |-> 1],
     [name |-> "geopos", arity |-> -2, sflags |-> <<"r">>, getkeys |-> FALSE, firstkey |-> 1, lastkey |-> 1, keystep |-> 1],
     [name |-> "geodist", arity |-> -4, sflags |-> <<"r">>, getkeys |-> FALSE, firstkey |-> 1, lastkey |-> 1, keystep |-> 1],
     [name |-> "pfselftest", arity |-> 1, sflags |-> <<"a">>, getkeys |-> FALSE, firstkey |-> 0, lastkey |-> 0, keystep |-> 0],
     [name |-> "pfadd", arity |-> -2, sflags |-> <<"w", "m", "F">>, getkeys |-> FALSE, firstkey |-> 1, lastkey |-> 1, keystep |-> 1],
     [name |-> "pfcount", arity |-> -2, sflags |-> <<"r">>, getkeys |-> FALSE, firstkey |-> 1, lastkey |-> -1, keystep |-> 1],
     [name |-> "pfmerge", arity |-> -2, sflags |-> <<"w", "m">>, getkeys |-> FALSE, firstkey |-> 1, lastkey |-> -1, keystep |-> 1],
     [name |-> "pfdebug", arity |-> -3, sflags |-> <<"w">>, getkeys |-> FALSE, firstkey |-> 0, lastkey |-> 0, keystep |-> 0],
     [name |-> "post", arity |-> -1, sflags |-> <<"l", "t">>, getkeys |-> FALSE, firstkey |-> 0, lastkey |-> 0, keystep |-> 0],
     [name |-> "host:", arity |-> -1, sflags |-> <<"l", "t">>, getkeys |-> FALSE, firstkey |-> 0, lastkey |-> 0, keystep |-> 0],
     [name |-> "latency", arity |-> -2, sflags |-> <<"a", "s", "l", "t">>, getkeys |-> FALSE, firstkey |-> 0, lastkey |-> 0, keystep |-> 0]
    >>

\* The rows the build registers (server.c:151 and 158).
LiveTable == SelectSeq(SourceTable, LAMBDA r : r.name \in {"get", "del"})

=============================================================================
