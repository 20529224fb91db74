------------------------------ MODULE MCClients ------------------------------
EXTENDS Clients, TLC

Row1(type, n, ttl) == [type |-> type, n |-> n, ttl |-> ttl]

\* Key 1 holds a counter, a JSON value with or without an expiry, or a pickle;
\* key 2, which is masked, a string.
TwoKeys ==
  1 :> {Row1("int", 1, FALSE), Row1("int", 2, FALSE), Row1("json", 1, FALSE), Row1("json", 1, TRUE),
        Row1("opaque", 1, FALSE)}
  @@ 2 :> {Row1("string", 1, FALSE)}

\* One process that may run everything: to it, any other command is one of the
\* writes of the applications.
Everything ==
  "client" :> (({"get", "view"} \X {1, 2})
               \cup ({"set", "del", "exists", "ttl", "expire", "persist", "incr", "keys", "stats",
                      "flush", "maintain", "vacuum", "which", "dump", "watch"} \X {1}))
EverySession == "client" :> {"repl", "ui"}
=============================================================================
