----------------------------- MODULE ProcessPool ----------------------------
(***************************************************************************)
(* HProcessPool and its table in shared memory, ProcessCntl                *)
(* (src/src/hprocesspool.{h,cpp}), with HProcess (src/src/hprocess.cpp).   *)
(* The parent creates a son per index, and in ManagePool (parent_touch)    *)
(* looks for sons that are gone or silent and restarts them; a son says    *)
(* that it lives with ManagePool (son_touch).  Nothing locks the table.    *)
(*                                                                         *)
(* Time is kept as ages, in units of which MAX_HEAR_TIME has MaxHear and   *)
(* AFTER_SIGTERM_ST has TermSleep.  In a pass of the parent, only its      *)
(* sleeps take time.  The fields at and startat are one age: at is 0       *)
(* exactly when startat is to be read instead, and whoever writes either   *)
(* writes the time of now.  The status is written and never read.          *)
(***************************************************************************)
EXTENDS Integers, FiniteSets

CONSTANTS Count,        \* GetChildCount
          Pids,         \* process ids that fork can give
          NoPid,        \* the 0 of ResetInfo
          MaxHear, TermSleep,
          EarlyTouch    \* whether a son may run before fork returns in the parent

Slots == 0..(Count - 1)

ASSUME PoolAssumption == /\ {Count, MaxHear, TermSleep} \subseteq Nat \ {0}
                         /\ NoPid \notin Pids /\ EarlyTouch \in BOOLEAN

VARIABLES pid, life,    \* per slot: the pid, and the age of the last sign of life
          son,          \* per pid: the process, its slot and what it read of the table
          pc, i, why,   \* the parent: place, index, and why it kills
          elapsed,      \* the age of nt, the time read at the start of the pass
          forked        \* the pid that fork returned

ppVars == <<pid, life, son, pc, i, why, elapsed, forked>>

\* Bound: a pass kills an index twice at most (gone, then silent).
MaxElapsed == 2 * Count * TermSleep

\* Ages that exceed nt by more than MaxHear are all alike.
MaxAge(nt) == MaxHear + 1 + nt
Older(a, d, nt) == IF a + d > MaxAge(nt) THEN MaxAge(nt) ELSE a + d

NoSon     == [state |-> "none", slot |-> 0, touching |-> FALSE, read |-> NoPid]
Zombie    == [NoSon EXCEPT !.state = "zombie"]
NewSon(s) == [NoSon EXCEPT !.state = "running", !.slot = s]
Alive     == {p \in Pids : son[p].state \in {"running", "hung"}}
SonsOf(s) == {p \in Alive : son[p].slot = s}

\* ProcessCntl::Init resets the table; the constructor makes no son.
Init == /\ pid = [s \in Slots |-> NoPid] /\ life = [s \in Slots |-> MaxAge(0)]
        /\ son = [p \in Pids |-> NoSon]
        /\ pc = "fork" /\ i = 0 /\ why = "init" /\ elapsed = 0 /\ forked = NoPid

\* Time passes for the ages in the table; nt is the age of the parent's nt then.
Pass(d, nt) == life' = [s \in Slots |-> Older(life[s], d, nt)]

-----------------------------------------------------------------------------
(* The parent *)

\* ManagePool, in the parent: nt, the time of now, is read once, for all
\* indices; it is of age 0.
ManagePool == /\ pc = "idle"
              /\ pc' = "look" /\ i' = 0
              /\ UNCHANGED <<pid, life, son, why, elapsed, forked>>

\* /proc has an entry for a process, a zombie too.
ProcessExists(p) == p # NoPid /\ son[p].state # "none"

Look == /\ pc = "look"
        /\ IF ProcessExists(pid[i])
           THEN pc' = "hear" /\ UNCHANGED why
           ELSE pc' = "term" /\ why' = "gone"
        /\ UNCHANGED <<pid, life, son, i, elapsed, forked>>

Abs(n) == IF n < 0 THEN -n ELSE n

\* Mutant: the limit is off by one.
SilentAtLimit(s) == Abs(life[s] - elapsed) >= MaxHear

\* abs(nt - at) > MAX_HEAR_TIME
Silent(s) == Abs(life[s] - elapsed) > MaxHear

\* After index i: the next one, or the end of what the parent does.
Continue == /\ i' = IF i + 1 < Count THEN i + 1 ELSE 0
            /\ pc' = IF i + 1 < Count
                     THEN CASE why = "init" -> "fork" [] why = "end" -> "term" [] OTHER -> "look"
                     ELSE IF why = "end" THEN "down" ELSE "idle"
            /\ why' = IF i + 1 < Count /\ why \in {"init", "end"} THEN why ELSE "none"
            /\ elapsed' = IF i + 1 < Count THEN elapsed ELSE 0   \* nt is gone

\* Mutant: silence is no reason to restart.
HearNothing == /\ pc = "hear"
               /\ Continue
               /\ UNCHANGED <<pid, life, son, forked>>

\* Mutant: a silent son is not killed before its successor is made.
HearNoKill == /\ pc = "hear"
              /\ IF Silent(i) THEN pc' = "fork" /\ why' = "silent" /\ UNCHANGED <<i, elapsed>>
                 ELSE Continue
              /\ UNCHANGED <<pid, life, son, forked>>

Hear == /\ pc = "hear"
        /\ IF Silent(i) THEN pc' = "term" /\ why' = "silent" /\ UNCHANGED <<i, elapsed>>
           ELSE Continue
        /\ UNCHANGED <<pid, life, son, forked>>

\* What SIGTERM and SIGKILL leave: of a process that ends, a zombie.
Ends(S) == son' = [p \in Pids |-> IF p \in S /\ p \in Alive THEN Zombie ELSE son[p]]
Target  == IF pid[i] = NoPid THEN Pids ELSE {pid[i]}   \* kill(0, ...): the whole group,
                                                       \* the parent too

\* kill_child: SIGTERM, which a son may ignore, and a sleep.
Term == /\ pc = "term"
        /\ \E S \in {{}, Target} :
              Ends(S) /\ pc' = IF S # {} /\ pid[i] = NoPid THEN "down" ELSE "kill"
        /\ Pass(TermSleep, elapsed + TermSleep)
        /\ elapsed' = elapsed + TermSleep
        /\ UNCHANGED <<pid, i, why, forked>>

\* kill_child: SIGKILL, then UnuseInfo; the destructor makes no new son.
Kill == /\ pc = "kill"
        /\ Ends(Target)
        /\ IF pid[i] = NoPid THEN pc' = "down" /\ UNCHANGED <<life, i, why, elapsed>>
           ELSE /\ life' = [life EXCEPT ![i] = 0]
                /\ IF why = "end" THEN Continue
                   ELSE pc' = "fork" /\ UNCHANGED <<i, why, elapsed>>
        /\ UNCHANGED <<pid, forked>>

\* fork gives a pid that is in no use: not by a process that lives, and not so
\* soon after it was in the table.
Fork == /\ pc = "fork"
        /\ \E p \in Pids : /\ p \notin Alive /\ \A s \in Slots : pid[s] # p
                           /\ son' = [son EXCEPT ![p] = NewSon(i)]
                           /\ forked' = p
        /\ pc' = "start"
        /\ UNCHANGED <<pid, life, i, why, elapsed>>

\* create_child in the parent.  After a son that was gone, the same index is
\* looked at for silence.
SetStartInfo == /\ pc = "start"
                /\ pid' = [pid EXCEPT ![i] = forked]
                /\ life' = [life EXCEPT ![i] = 0]
                /\ forked' = NoPid
                /\ IF why = "gone" THEN pc' = "hear" /\ UNCHANGED <<i, why, elapsed>> ELSE Continue
                /\ UNCHANGED son

\* ~HProcessPool in the parent, between two passes.
Destroy == /\ pc = "idle"
           /\ pc' = "term" /\ i' = 0 /\ why' = "end"
           /\ UNCHANGED <<pid, life, son, elapsed, forked>>

-----------------------------------------------------------------------------
(* Time, and the sons *)

\* The program does other things between two calls of ManagePool.
Tick == /\ pc = "idle"
        /\ Pass(1, 0)
        /\ UNCHANGED <<pid, son, pc, i, why, elapsed, forked>>

MayRun(p) == son[p].state = "running" /\ (EarlyTouch \/ p # forked)

\* set_info_as_status in a son: the time is stored and the pid is read ...
Touch(p) == /\ MayRun(p) /\ ~son[p].touching
            /\ life' = [life EXCEPT ![son[p].slot] = 0]
            /\ son' = [son EXCEPT ![p].touching = TRUE, ![p].read = pid[son[p].slot]]
            /\ UNCHANGED <<pid, pc, i, why, elapsed, forked>>

\* ... and then stored again, with the status.
TouchStore(p) == /\ MayRun(p) /\ son[p].touching
                 /\ pid' = [pid EXCEPT ![son[p].slot] = son[p].read]
                 /\ son' = [son EXCEPT ![p].touching = FALSE, ![p].read = NoPid]
                 /\ UNCHANGED <<life, pc, i, why, elapsed, forked>>

\* A son stops to touch the table.
Hang(p) == /\ MayRun(p)
           /\ son' = [son EXCEPT ![p].state = "hung"]
           /\ UNCHANGED <<pid, life, pc, i, why, elapsed, forked>>

\* A son exits, crashes or is killed by somebody else.
Die(p) == /\ p \in Alive
          /\ son' = [son EXCEPT ![p] = Zombie]
          /\ UNCHANGED <<pid, life, pc, i, why, elapsed, forked>>

\* chlsig_handler, if the program installed it.
Reap(p) == /\ son[p].state = "zombie"
           /\ son' = [son EXCEPT ![p] = NoSon]
           /\ UNCHANGED <<pid, life, pc, i, why, elapsed, forked>>

Parent == ManagePool \/ Look \/ Hear \/ Term \/ Kill \/ Fork \/ SetStartInfo
Next   == \/ Parent \/ Destroy \/ Tick
          \/ \E p \in Pids : Touch(p) \/ TouchStore(p) \/ Hang(p) \/ Die(p) \/ Reap(p)

Spec == Init /\ [][Next]_ppVars

-----------------------------------------------------------------------------
(* Properties *)

\* Every variable keeps its type.
TypeOK == /\ pid \in [Slots -> Pids \cup {NoPid}] /\ life \in [Slots -> 0..MaxAge(MaxElapsed)]
          /\ son \in [Pids -> [state : {"none", "running", "hung", "zombie"}, slot : Slots,
                               touching : BOOLEAN, read : Pids \cup {NoPid}]]
          /\ pc \in {"idle", "look", "hear", "term", "kill", "fork", "start", "down"}
          /\ i \in Slots /\ why \in {"none", "init", "gone", "silent", "end"}
          /\ elapsed \in 0..MaxElapsed /\ forked \in Pids \cup {NoPid}

\* An index never has two sons, however sons die, hang or ignore SIGTERM while
\* the parent restarts them.
OneSonEach == \A s \in Slots : Cardinality(SonsOf(s)) <= 1

\* "son process ... is not EXISTS": a son the parent takes for gone is gone.
GoneMeansGone == pc = "term" /\ why = "gone" => SonsOf(i) = {}

\* A son is restarted for its silence only if the last sign of its life is
\* older than MAX_HEAR_TIME at that time.
SilentMeansSilent == [][pc = "hear" /\ pc' = "term" => life[i] > MaxHear]_ppVars

\* After the destructor no son is left.
NoneLeft == pc = "down" => Alive = {}

NoneRuns(s) == {p \in SonsOf(s) : son[p].state = "running"} = {}
=============================================================================
