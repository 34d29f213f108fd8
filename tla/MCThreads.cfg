\* One pool of three children, which end in every way; three workers and two jobs,
\* some pushed while the workers run or end; two workers and two producers that
\* push on while the owner calls ExitWork; two groups of one block of two bytes
\* for three users.
CONSTANTS
    Pools = {p1}
    ChildCount = 3
    Exits = {"return", "childThreadExit", "pthread_exit"}
    DestroyAfterJoin = FALSE
    Workers = {w1, w2, w3}
    Jobs = {j1, j2}
    NoJob = NoJob
    Summers = {s1, s2}
    Producers = {r1, r2}
    Owner = Owner
    ExitJob = ExitJob
    Users = {u1, u2, u3}
    GroupCount = 2
    GroupItemCount = 1
    ItemSize = 2
    Lens = {1, 2, 3}
    None = None
SPECIFICATION ThreadsSpec
INVARIANTS  ExitExact BlocksOwned
PROPERTIES PoolEnds WorkDone
CHECK_DEADLOCK FALSE
