------------------------------- MODULE Leader -------------------------------
(***************************************************************************)
(* Leader election between keeper processes (keeper/src/leader.ts) and the *)
(* flag it drives in the keeper's main (keeper/src/index.ts).              *)
(*                                                                         *)
(* Leadership is a session-level PostgreSQL advisory lock.  The elector    *)
(* asks for it through a pool of connections (keeper/src/db.ts), so every  *)
(* request may travel on another session, and a session that is idle for   *)
(* 20 seconds is closed and gives its locks back.  The elector itself only *)
(* notices at its next timer tick, 30 seconds apart.                       *)
(*                                                                         *)
(* main calls neither confirmLeadership nor stop of the elector: they have *)
(* no action here.                                                         *)
(***************************************************************************)
EXTENDS Integers

CONSTANTS
    Instance,    \* keeper processes
    Conn,        \* connections of one process's pool
    NoLock,
    MaxDrops,    \* bound: lock-holding connections closed under a live process
    MaxStops     \* bound: crashes and shutdowns

ASSUME LeaderAssumption ==
    /\ MaxDrops \in Nat /\ MaxStops \in Nat
    /\ NoLock \notin Instance \X Conn

VARIABLES
    phase,    \* of each process
    lock,     \* the session that holds the advisory lock
    pending,  \* the lock was granted, recordLeadership is being awaited
    elector,  \* LeaderElector._isLeader
    active,   \* isLeader in main: the process runs scan cycles
    lapsed,   \* history: the session was lost since the lock was last granted
    spent     \* drops and stops used up

leaderVars == <<phase, lock, pending, elector, active, lapsed, spent>>

(* The elector asks for the lock in start() and at every tick of its timer. *)
Up(i) == phase[i] \in {"starting", "running"}

LeaderInit ==
    /\ phase = [i \in Instance |-> "down"]
    /\ lock = NoLock
    /\ pending = [i \in Instance |-> FALSE]
    /\ elector = [i \in Instance |-> FALSE]
    /\ active = [i \in Instance |-> FALSE]
    /\ lapsed = [i \in Instance |-> FALSE]
    /\ spent = [drops |-> 0, stops |-> 0]

(* main up to leader.start(): isLeader is true, no cycle is scheduled yet. *)
Start(i) ==
    /\ phase[i] = "down"
    /\ phase' = [phase EXCEPT ![i] = "starting"]
    /\ UNCHANGED <<lock, pending, elector, active, lapsed, spent>>

(* External: pg_try_advisory_lock is granted when the lock is free or held *)
(* by the same session.                                                    *)
AlwaysGranted(i, c) == TRUE  \* mutant: the answer of the lock is ignored

OnlyAtStart(i, c) ==  \* mutant: the timer ignores a lock it is granted
    phase[i] = "starting" /\ (lock = NoLock \/ lock = <<i, c>>)

Granted(i, c) == lock = NoLock \/ lock = <<i, c>>

(* tryAcquire, from start or from the timer, up to recordLeadership. *)
Acquire(i, c) ==
    /\ Up(i)
    /\ phase[i] = "starting" => ~pending[i]
    /\ Granted(i, c)
    /\ lock' = <<i, c>>
    /\ pending' = [pending EXCEPT ![i] = TRUE]
    /\ lapsed' = [lapsed EXCEPT ![i] = FALSE]
    /\ UNCHANGED <<phase, elector, active, spent>>

(* When start() has its first answer main schedules the scan cycles. *)
Running(i) == [phase EXCEPT ![i] = IF @ = "starting" THEN "running" ELSE @]

(* main's flag is true from its declaration; it counts from here on.       *)
FlagAtStart(i) == IF phase[i] = "starting" THEN TRUE ELSE active[i]

(* setLeader(true) once recordLeadership is done, whether or not its       *)
(* statements failed: onLeadershipGained fires on a change.                *)
SetLeader(i) ==
    /\ pending[i]
    /\ pending' = [pending EXCEPT ![i] = FALSE]
    /\ elector' = [elector EXCEPT ![i] = TRUE]
    /\ active' = [active EXCEPT ![i] = IF elector[i] THEN FlagAtStart(i) ELSE TRUE]
    /\ phase' = Running(i)
    /\ UNCHANGED <<lock, lapsed, spent>>

(* tryAcquire returns false.  start() only logs it; the timer calls        *)
(* setLeader(false) if the elector believed it was the leader.             *)
Refused(i) ==
    /\ elector' = [elector EXCEPT ![i] = FALSE]
    /\ active' = [active EXCEPT ![i] = IF elector[i] THEN FALSE ELSE FlagAtStart(i)]
    /\ lapsed' = [lapsed EXCEPT ![i] = @ /\ pending[i]]
    /\ phase' = Running(i)
    /\ UNCHANGED <<lock, pending, spent>>

(* The lock is held by another session, of this process or of another. *)
NotAcquired(i, c) ==
    /\ Up(i)
    /\ phase[i] = "starting" => ~pending[i]
    /\ ~Granted(i, c)
    /\ Refused(i)

(* The statement fails; the catch makes it false. *)
QueryFails(i) ==
    /\ Up(i)
    /\ phase[i] = "starting" => ~pending[i]
    /\ Refused(i)

(* External: PostgreSQL frees the locks of a session that ends. *)
Released(i) == IF lock \in {i} \X Conn THEN NoLock ELSE lock

Mine(i) == lock \in {i} \X Conn

(* idle_timeout or the network closes the session that holds the lock. *)
ConnectionDrops(i) ==
    /\ phase[i] # "down"
    /\ Mine(i)
    /\ spent.drops < MaxDrops
    /\ spent' = [spent EXCEPT !.drops = @ + 1]
    /\ lock' = Released(i)
    /\ lapsed' = [lapsed EXCEPT ![i] = TRUE]
    /\ UNCHANGED <<phase, pending, elector, active>>

Crash(i) ==
    /\ phase[i] # "down"
    /\ spent.stops < MaxStops
    /\ spent' = [spent EXCEPT !.stops = @ + 1]
    /\ phase' = [phase EXCEPT ![i] = "down"]
    /\ lock' = Released(i)
    /\ pending' = [pending EXCEPT ![i] = FALSE]
    /\ elector' = [elector EXCEPT ![i] = FALSE]
    /\ active' = [active EXCEPT ![i] = FALSE]
    /\ lapsed' = [lapsed EXCEPT ![i] = FALSE]

(* SIGTERM: isLeader is cleared and the pool closed; the elector is not    *)
(* told.  The process stays for up to 30 seconds.                          *)
Shutdown(i) ==
    /\ phase[i] = "running"
    /\ spent.stops < MaxStops
    /\ spent' = [spent EXCEPT !.stops = @ + 1]
    /\ phase' = [phase EXCEPT ![i] = "draining"]
    /\ active' = [active EXCEPT ![i] = FALSE]
    /\ lock' = Released(i)
    /\ lapsed' = [lapsed EXCEPT ![i] = TRUE]
    /\ UNCHANGED <<pending, elector>>

(* The timer still ticks; every statement on the closed pool fails. *)
DrainingTick(i) ==
    /\ phase[i] = "draining"
    /\ elector[i]
    /\ elector' = [elector EXCEPT ![i] = FALSE]
    /\ active' = [active EXCEPT ![i] = FALSE]
    /\ UNCHANGED <<phase, lock, pending, lapsed, spent>>

Exit(i) ==
    /\ phase[i] = "draining"
    /\ phase' = [phase EXCEPT ![i] = "down"]
    /\ pending' = [pending EXCEPT ![i] = FALSE]
    /\ elector' = [elector EXCEPT ![i] = FALSE]
    /\ active' = [active EXCEPT ![i] = FALSE]
    /\ lapsed' = [lapsed EXCEPT ![i] = FALSE]
    /\ UNCHANGED <<lock, spent>>

LeaderNext ==
    \E i \in Instance :
        \/ Start(i) \/ SetLeader(i) \/ QueryFails(i)
        \/ ConnectionDrops(i) \/ Crash(i) \/ Shutdown(i) \/ DrainingTick(i) \/ Exit(i)
        \/ \E c \in Conn : Acquire(i, c) \/ NotAcquired(i, c)

LeaderSpec == LeaderInit /\ [][LeaderNext]_leaderVars

(* The orchestrator restarts stopped keepers, awaits end, and the pool     *)
(* uses every one of its connections for the timer's request now and then. *)
LeaderFairness ==
    \A i \in Instance :
        /\ WF_leaderVars(Start(i)) /\ WF_leaderVars(SetLeader(i)) /\ WF_leaderVars(Exit(i))
        /\ \A c \in Conn : SF_leaderVars(Acquire(i, c))

LeaderFairSpec == LeaderSpec /\ LeaderFairness

-----------------------------------------------------------------------------
(* Properties.                                                             *)

(* The flags are flags and the lock belongs to a session or to nobody.     *)
LeaderTypeOK ==
    /\ phase \in [Instance -> {"down", "starting", "running", "draining"}]
    /\ lock \in (Instance \X Conn) \cup {NoLock}
    /\ pending \in [Instance -> BOOLEAN]
    /\ elector \in [Instance -> BOOLEAN]
    /\ active \in [Instance -> BOOLEAN]
    /\ lapsed \in [Instance -> BOOLEAN]
    /\ spent \in [drops : Nat, stops : Nat]

(* An elector that believes it leads, or is about to, holds the lock       *)
(* unless its session was lost since the lock was granted.                 *)
LeadsByLock ==
    \A i \in Instance : (elector[i] \/ pending[i]) /\ ~lapsed[i] => Mine(i)

(* Two electors believe they lead only while one of them has lost its      *)
(* session and has not asked again: pooled requests, refusals, crashes and *)
(* restarts alone never make two leaders.                                  *)
SplitBrainNeedsLapse ==
    \A i, j \in Instance :
        i # j /\ elector[i] /\ elector[j] => lapsed[i] \/ lapsed[j]

(* A crash, a shutdown, a dropped session or a lock left on the wrong      *)
(* connection of the pool never leaves the keepers without a leader for    *)
(* good.                                                                   *)
LeadershipReturns == []<>(\E i \in Instance : elector[i])
=============================================================================
