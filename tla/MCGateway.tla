------------------------------ MODULE MCGateway ------------------------------
EXTENDS Gateway, TLC

CONSTANTS c1, c2, c3, k1, k2

(* c1 and c2 at one gateway, c3 at another *)
MCGatewayOf == [c \in Conns |-> IF c = c3 THEN 2 ELSE 1]
OneStripe == [k \in Keys |-> 1]

Do(op, keys) ==
    [op |-> op, keys |-> keys, int |-> TRUE, cond |-> "none", get |-> FALSE, ttl |-> Never]
With(q, cond, get, ttl) == [q EXCEPT !.cond = cond, !.get = get, !.ttl = ttl]
Say(op) == Do(op, <<>>)
Text(q) == [q EXCEPT !.int = FALSE]

Scenario(s1, s2, s3) == c1 :> s1 @@ c2 :> s2 @@ c3 :> s3

Counters ==
    Scenario(<<Do("incr", <<k1>>)>>, <<Do("append", <<k1>>)>>,
             <<Do("incr", <<k1>>), Do("incr", <<k1>>)>>)
Setters ==
    Scenario(<<With(Do("set", <<k1>>), "nx", FALSE, 3)>>, <<Do("setnx", <<k1>>), Do("getset", <<k1>>)>>,
             <<With(Do("set", <<k1>>), "xx", TRUE, Keep), Do("getdel", <<k1>>)>>)
Deadlines ==
    Scenario(<<With(Do("set", <<k1>>), "none", FALSE, 2), With(Do("expire", <<k1>>), "gt", FALSE, 3)>>,
             <<Do("persist", <<k1>>)>>,
             <<With(Do("getex", <<k1>>), "none", FALSE, 3), Do("ttl", <<k1>>)>>)
ManyKeys ==
    Scenario(<<Do("mset", <<k1, k2>>)>>, <<Do("del", <<k1, k2, k1>>)>>,
             <<Do("msetnx", <<k2>>), Do("exists", <<k1, k2>>)>>)
Renaming ==
    Scenario(<<Do("incr", <<k1>>), Do("rename", <<k1, k2>>)>>, <<Do("append", <<k1>>)>>,
             <<Do("renamenx", <<k1, k2>>), Do("strlen", <<k2>>)>>)
Pipelines ==
    Scenario(<<Say("ping"), Say("auth"), Say("skip"), Text(Do("set", <<k1>>)), Say("off"), Say("skip"),
               Do("incr", <<k1>>), Say("ping"), Say("on"), Say("reset"), Say("ping")>>,
             <<Say("auth"), Say("off"), Say("reset"), Say("quit"), Say("ping")>>, <<>>)

(* The connections of the other scenarios authenticate first. *)
Authenticated(s) == [c \in Conns |-> <<Say("auth")>> \o s[c]] @@ <<>>
MCScenarios ==
    {Authenticated(s) : s \in {Counters, Setters, Deadlines, ManyKeys, Renaming}} \cup {Pipelines}
RenameScenario == {Authenticated(Renaming)}
=============================================================================
