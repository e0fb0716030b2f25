------------------------------ MODULE TunerPool ------------------------------
(***************************************************************************)
(* The processes of recdyud that share the DY-UD200 tuners of one host:    *)
(* open_device() walks the sorted list of tuners and keeps the first one   *)
(* whose USB interface it can claim, cmd_list() of recdyud-diag claims     *)
(* each tuner for a moment to see whether it is in use.  The only thing    *)
(* the processes share is the kernel's record of who claimed an interface. *)
(***************************************************************************)
EXTENDS Integers, FiniteSets

CONSTANTS
    Procs,      \* processes that open a tuner (recdyud; info, monitor, scan)
    Probers,    \* processes running `recdyud-diag list'
    Nobody,     \* the owner of an unclaimed interface
    N,          \* number of tuners, in the order of enumerate_devices()
    Selection   \* the positions that each process's --device matches

ASSUME PoolAssumption ==
    /\ N \in Nat \ {0}
    /\ IsFiniteSet(Procs)
    /\ Procs \cap Probers = {}
    /\ Nobody \notin Procs \cup Probers
    /\ Selection \in [Procs -> (SUBSET (1..N)) \ {{}}]

Tuners == 1..N
Beyond == N + 1         \* the position after the last tuner

VARIABLES
    owner,      \* per tuner: the process that claimed its interface
    pc,         \* per process: where it is in open_device() and close()
    pos,        \* per process: the tuner it tries or holds
    outcome,    \* per process: how its last attempt ended
    probe,      \* per prober: the tuner it looks at
    held        \* per prober: whether it has claimed that tuner

vars == <<owner, pc, pos, outcome, probe, held>>

Holding == {"init", "run", "closing"}
Phases == {"off", "scan"} \cup Holding
Outcomes == {"none", "ok", "busy", "error", "killed"}

TypeOK ==
    /\ owner \in [Tuners -> Procs \cup Probers \cup {Nobody}]
    /\ pc \in [Procs -> Phases]
    /\ pos \in [Procs -> 1..Beyond]
    /\ outcome \in [Procs -> Outcomes]
    /\ probe \in [Probers -> 1..Beyond]
    /\ held \in [Probers -> BOOLEAN]

Init ==
    /\ owner = [t \in Tuners |-> Nobody]
    /\ pc = [p \in Procs |-> "off"]
    /\ pos = [p \in Procs |-> Beyond]
    /\ outcome = [p \in Procs |-> "none"]
    /\ probe = [d \in Probers |-> Beyond]
    /\ held = [d \in Probers |-> FALSE]

-----------------------------------------------------------------------------
(* open_device()                                                            *)

\* j is the first position from k on that _select() yields for p.
NextMatch(p, k, j) ==
    /\ j \in Selection[p] \cup {Beyond}
    /\ \A i \in k..(j - 1) : i \notin Selection[p]

\* A process starts, or is started again, and lists the tuners.
Start(p) ==
    /\ pc[p] = "off"
    /\ \E j \in 1..N : NextMatch(p, 1, j) /\ pos' = [pos EXCEPT ![p] = j]
    /\ pc' = [pc EXCEPT ![p] = "scan"]
    /\ outcome' = [outcome EXCEPT ![p] = "none"]
    /\ UNCHANGED <<owner, probe, held>>

\* _claim() succeeds: the kernel grants a free interface to one process.
Claim(p) ==
    /\ pc[p] = "scan"
    /\ pos[p] \in Tuners
    /\ owner[pos[p]] = Nobody
    /\ owner' = [owner EXCEPT ![pos[p]] = p]
    /\ pc' = [pc EXCEPT ![p] = "init"]
    /\ UNCHANGED <<pos, outcome, probe, held>>

\* Bug: the walk does not stop at the end of the list.
SkipBusyPastEnd(p) ==
    /\ pc[p] = "scan"
    /\ pos[p] \in Tuners => owner[pos[p]] # Nobody
    /\ pos' = [pos EXCEPT ![p] = @ + 1]
    /\ UNCHANGED <<owner, pc, outcome, probe, held>>

\* Bug: the walk starts over until a tuner is free.
SkipBusyAround(p) ==
    /\ pc[p] = "scan"
    /\ pos[p] \in Tuners
    /\ owner[pos[p]] # Nobody
    /\ pos' = [pos EXCEPT ![p] = (@ % N) + 1]
    /\ UNCHANGED <<owner, pc, outcome, probe, held>>

\* Bug: the tuner after a busy one is not tried.
SkipBusyByTwo(p) ==
    /\ pc[p] = "scan"
    /\ pos[p] \in Tuners
    /\ owner[pos[p]] # Nobody
    /\ \E j \in (pos[p] + 1)..Beyond :
          NextMatch(p, pos[p] + 2, j) /\ pos' = [pos EXCEPT ![p] = j]
    /\ UNCHANGED <<owner, pc, outcome, probe, held>>

\* _claim() raises DeviceBusy: go on with the next match.
SkipBusy(p) ==
    /\ pc[p] = "scan"
    /\ pos[p] \in Tuners
    /\ owner[pos[p]] # Nobody
    /\ \E j \in (pos[p] + 1)..Beyond :
          NextMatch(p, pos[p] + 1, j) /\ pos' = [pos EXCEPT ![p] = j]
    /\ UNCHANGED <<owner, pc, outcome, probe, held>>

\* _claim() raises any other DeviceError, which ends open_device().
ClaimFails(p) ==
    /\ pc[p] = "scan"
    /\ pos[p] \in Tuners
    /\ pc' = [pc EXCEPT ![p] = "off"]
    /\ outcome' = [outcome EXCEPT ![p] = "error"]
    /\ UNCHANGED <<owner, pos, probe, held>>

\* No match is left: "all matching DY-UD200 devices are in use".
AllBusy(p) ==
    /\ pc[p] = "scan"
    /\ pos[p] = Beyond
    /\ pc' = [pc EXCEPT ![p] = "off"]
    /\ outcome' = [outcome EXCEPT ![p] = "busy"]
    /\ UNCHANGED <<owner, pos, probe, held>>

Initialized(p) ==
    /\ pc[p] = "init"
    /\ pc' = [pc EXCEPT ![p] = "run"]
    /\ UNCHANGED <<owner, pos, outcome, probe, held>>

\* Bug: open_device() fails without closing the tuner that it claimed.
InitFailsUnclosed(p) ==
    /\ pc[p] = "init"
    /\ pc' = [pc EXCEPT ![p] = "off"]
    /\ outcome' = [outcome EXCEPT ![p] = "error"]
    /\ UNCHANGED <<owner, pos, probe, held>>

\* initialize() raises: the tuner is closed, no other one is tried.
InitFails(p) ==
    /\ pc[p] = "init"
    /\ pc' = [pc EXCEPT ![p] = "closing"]
    /\ outcome' = [outcome EXCEPT ![p] = "error"]
    /\ UNCHANGED <<owner, pos, probe, held>>

\* The with block of the caller is left; __exit__() calls close().
Finish(p) ==
    /\ pc[p] = "run"
    /\ pc' = [pc EXCEPT ![p] = "closing"]
    /\ outcome' = [outcome EXCEPT ![p] = "ok"]
    /\ UNCHANGED <<owner, pos, probe, held>>

\* release(), reached by close() whether or not its commands succeed.
Release(p) ==
    /\ pc[p] = "closing"
    /\ owner' = [owner EXCEPT ![pos[p]] = Nobody]
    /\ pc' = [pc EXCEPT ![p] = "off"]
    /\ UNCHANGED <<pos, outcome, probe, held>>

\* SIGKILL at any point; the kernel releases what the process had claimed.
Kill(p) ==
    /\ pc[p] # "off"
    /\ owner' = [t \in Tuners |-> IF owner[t] = p THEN Nobody ELSE owner[t]]
    /\ pc' = [pc EXCEPT ![p] = "off"]
    /\ outcome' = [outcome EXCEPT ![p] = "killed"]
    /\ UNCHANGED <<pos, probe, held>>

-----------------------------------------------------------------------------
(* cmd_list()                                                               *)

ListStart(d) ==
    /\ probe[d] = Beyond
    /\ probe' = [probe EXCEPT ![d] = 1]
    /\ UNCHANGED <<owner, pc, pos, outcome, held>>

\* The tuner is free: it is claimed until the finally clause.
ListClaim(d) ==
    /\ probe[d] \in Tuners
    /\ ~held[d]
    /\ owner[probe[d]] = Nobody
    /\ owner' = [owner EXCEPT ![probe[d]] = d]
    /\ held' = [held EXCEPT ![d] = TRUE]
    /\ UNCHANGED <<pc, pos, outcome, probe>>

\* release() in the finally clause frees only what this process claimed: the
\* tuner may be in use or may have failed to open.
ListRelease(d) ==
    /\ probe[d] \in Tuners
    /\ owner' = [owner EXCEPT ![probe[d]] = IF held[d] THEN Nobody ELSE @]
    /\ held' = [held EXCEPT ![d] = FALSE]
    /\ probe' = [probe EXCEPT ![d] = @ + 1]
    /\ UNCHANGED <<pc, pos, outcome>>

-----------------------------------------------------------------------------

Open(p) == Claim(p) \/ SkipBusy(p) \/ ClaimFails(p) \/ AllBusy(p)
              \/ Initialized(p) \/ InitFails(p)

List(d) == ListClaim(d) \/ ListRelease(d)

Next ==
    \/ \E p \in Procs : Start(p) \/ Open(p) \/ Finish(p) \/ Release(p) \/ Kill(p)
    \/ \E d \in Probers : ListStart(d) \/ List(d)

Spec == Init /\ [][Next]_vars

\* A started process is scheduled and each of its USB calls has a timeout;
\* nothing makes a process start, finish its recording or be killed.
Fairness ==
    /\ \A p \in Procs : WF_vars(Open(p)) /\ WF_vars(Release(p))
    /\ \A d \in Probers : WF_vars(List(d))

FairSpec == Spec /\ Fairness

-----------------------------------------------------------------------------
(* Properties                                                               *)

\* A tuner is claimed exactly by the process that is between its claim and
\* its release of that tuner: two processes never drive one tuner, and no
\* way out of open_device() leaves a claim behind.
ClaimsMatch ==
    /\ \A t \in Tuners, p \in Procs :
          owner[t] = p <=> pc[p] \in Holding /\ pos[p] = t
    /\ \A t \in Tuners, d \in Probers :
          owner[t] = d <=> held[d] /\ probe[d] = t
    /\ \A d \in Probers : held[d] => probe[d] \in Tuners

\* docker/config.yml: "Add one entry per DY-UD200; each process picks a free
\* tuner".  As long as there are no more processes than tuners, none of them
\* is told that all tuners are in use, although the walk of open_device() is
\* not atomic and tuners that it has passed may become free behind it.
PicksFreeTuner ==
    Cardinality(Procs) <= N => \A p \in Procs : outcome[p] # "busy"

\* The walk of open_device() is finite: a process that has started to look
\* for a tuner runs or ends, whatever the other processes do.
OpenSettles ==
    \A p \in Procs : pc[p] = "scan" ~> pc[p] \in {"run", "off"}
=============================================================================
