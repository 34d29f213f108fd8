----------------------------- MODULE RedisClient -----------------------------
(***************************************************************************)
(* CRedis (src/nosql/hredis.{h,cpp}) over hiredis and a server.  A call    *)
(* makes a context if there is none, sends one command and reads one       *)
(* reply; whatever it does not expect makes it replace the context.  The   *)
(* methods differ in the command and in the reply they take; a command is  *)
(* abstracted to what it does to the data of the server, a sequence of     *)
(* items: write puts an item in, take gets the oldest out, read looks.     *)
(* The item that a call writes is the number of the call.                  *)
(***************************************************************************)
EXTENDS Integers, Sequences, FiniteSets, Functions

CONSTANTS MaxCalls,     \* bound on the calls
          MaxOutages    \* bound on how often the server or a connection is lost

RedisAssumption == MaxCalls \in Nat /\ MaxOutages \in Nat

VARIABLES context,      \* m_context: none, good, or broken (err is set)
          alive,        \* the server can be reached
          items,        \* what the server has
          call, n,      \* the call that runs, and its number
          rpc, reply,   \* its place, and the reply that it got
          answer,       \* what the last call returned or threw
          outages, quiet,            \* history: outages; calls ended since the last
          applied, given, withdrawn  \* history: items put in, handed to callers, taken out

redisVars == <<context, alive, items, call, n, rpc, reply, answer, outages, quiet,
               applied, given, withdrawn>>
data      == <<items, applied, withdrawn>>

\* The methods, by the reply they expect and by what their command does.
Method(reply_, ops) == {[wants |-> reply_, does |-> o] : o \in ops}
Strings  == Method("STATUS", {"write"}) \cup Method("BOOL", {"write"})
              \cup Method("STRING", {"read"})
Keys     == Method("INTEGER", {"write"}) \cup Method("BOOL", {"read"})
Fields   == Method("INTEGER", {"write"}) \cup Method("BOOL", {"write", "read"})
              \cup Method("STRING", {"read"})
Hashes   == Method("NUMBER", {"read"}) \cup Method("INTEGER", {"write"})
              \cup Method("ARRAY", {"read"})
Lists    == Method("POP", {"take"}) \cup Method("INTEGER", {"write"})
              \cup Method("STRING", {"read"}) \cup Method("NUMBER", {"read"})
ListEnds == Method("STRING", {"take"}) \cup Method("INTEGER", {"write"})
              \cup Method("ARRAY", {"read"}) \cup Method("STATUS", {"write"})
Sets     == Method("INTEGER", {"write"}) \cup Method("NUMBER", {"read"})
              \cup Method("BOOL", {"read"}) \cup Method("ARRAY", {"read"})
Methods  == Strings \cup Keys \cup Fields \cup Hashes \cup Lists \cup ListEnds \cup Sets

NoCall == [wants |-> "none", does |-> "none"]
Null   == [type |-> "null", val |-> <<>>]

Init == /\ context = "none" /\ alive \in BOOLEAN /\ items = <<>>
        /\ call = NoCall /\ n = 0 /\ rpc = "idle" /\ reply = Null
        /\ answer = [ret |-> "none", val |-> <<>>]
        /\ outages = 0 /\ quiet = 0 /\ applied = {} /\ given = <<>> /\ withdrawn = {}

\* redisConnect; CRedis::Init throws when it fails, and keeps the broken context.
Reinit == context' = IF alive THEN "good" ELSE "broken"

Ended(ret, val) == /\ rpc' = "idle" /\ answer' = [ret |-> ret, val |-> val]
                   /\ quiet' = quiet + 1 /\ call' = NoCall /\ reply' = Null
                   /\ given' = IF ret = "OK" /\ call.does = "take" THEN given \o val ELSE given
                   /\ UNCHANGED <<alive, n, outages, data>>

\* A method is called: CHECK_REDIS_INS.
Call(c) == /\ rpc = "idle" /\ n < MaxCalls
           /\ n' = n + 1 /\ call' = c
           /\ IF context = "none" THEN Reinit ELSE UNCHANGED context
           /\ rpc' = IF context' = "broken" /\ context = "none" THEN "thrown" ELSE "command"
           /\ UNCHANGED <<alive, items, reply, answer, outages, quiet, applied, given, withdrawn>>

\* What the server does, and the reply it makes.
Executed ==
    CASE call.does = "write" ->
            /\ items' = Append(items, n) /\ applied' = applied \cup {n}
            /\ reply' = [type |-> call.wants, val |-> <<>>] /\ UNCHANGED withdrawn
      [] call.does = "take" /\ items # <<>> ->
            /\ items' = Tail(items) /\ withdrawn' = withdrawn \cup {Head(items)}
            /\ reply' = [type |-> call.wants, val |-> <<Head(items)>>] /\ UNCHANGED applied
      [] call.does = "take" /\ items = <<>> ->
            reply' = [type |-> "NIL", val |-> <<>>] /\ UNCHANGED data
      [] call.does = "read" ->
            reply' = [type |-> call.wants, val |-> items] /\ UNCHANGED data

\* redisCommand: on a good context the server executes the command or refuses it;
\* the connection may be lost before or after that.
Command ==
    /\ rpc = "command"
    /\ \/ context = "good" /\ alive /\ Executed /\ UNCHANGED context
       \/ /\ context = "good" /\ alive
          /\ reply' = [type |-> "ERROR", val |-> <<>>] /\ UNCHANGED <<data, context>>
       \/ /\ context = "broken" \/ ~alive
          /\ context' = "broken" /\ reply' = Null /\ UNCHANGED data
    /\ rpc' = "reply"
    /\ UNCHANGED <<alive, call, n, answer, outages, quiet, given>>

\* No reply, or not the one expected: the context is replaced and the call fails.
\* The methods that answer yes or no throw, and so does a Reinit that fails.
Failed ==
    /\ rpc = "reply" /\ reply.type \in {"null", "ERROR"}
    /\ Reinit
    /\ Ended(IF call.wants = "BOOL" \/ ~alive THEN "thrown" ELSE "RDS_ERR", <<>>)

\* The reply is taken; NIL leaves the value as the caller gave it, or empty.
Succeeded == /\ rpc = "reply" /\ reply.type \notin {"null", "ERROR"}
             /\ Ended("OK", reply.val)
             /\ UNCHANGED context

Thrown == rpc = "thrown" /\ Ended("thrown", <<>>) /\ UNCHANGED context

\* The server or the connection goes: what was sent may have been executed, but
\* its reply does not arrive.
Lose == /\ outages < MaxOutages /\ outages' = outages + 1
        /\ context' = IF context = "good" THEN "broken" ELSE context
        /\ alive' \in BOOLEAN
        /\ reply' = IF rpc = "reply" THEN Null ELSE reply
        /\ quiet' = 0
        /\ UNCHANGED <<items, call, n, rpc, answer, applied, given, withdrawn>>
\* It is back.
Back == /\ ~alive /\ alive' = TRUE /\ quiet' = 0
        /\ UNCHANGED <<context, items, call, n, rpc, reply, answer, outages, applied, given,
                       withdrawn>>

Next == \/ \E c \in Methods : Call(c)
        \/ Command \/ Failed \/ Succeeded \/ Thrown \/ Lose \/ Back

Spec == Init /\ [][Next]_redisVars

-----------------------------------------------------------------------------
(* Properties *)

\* A command is executed at most once, and once if its call returned OK: the items
\* on the server and those taken out are those put in, each once; an item is handed
\* to one caller at most, and one that was taken out and handed to nobody belongs to
\* a call that runs or failed.
OnceAtMost ==
    /\ IsInjective(items) /\ IsInjective(given)
    /\ Range(items) \cap withdrawn = {} /\ Range(items) \cup withdrawn = applied
    /\ Range(given) \subseteq withdrawn
    /\ \A i \in applied : i <= n
    /\ Cardinality(withdrawn \ Range(given)) <= outages + (IF rpc = "reply" THEN 1 ELSE 0)

\* With the server there, one call at most fails for an outage before it: the call
\* after that finds a good context.
Heals == rpc = "idle" /\ alive /\ quiet >= 2 => context = "good"
=============================================================================
