----------------------------- MODULE Diagnostics -----------------------------
(* One run of recdyud-diag: main() calls the function of its subcommand.    *)
EXTENDS Monitor, Scan

VARIABLE command    \* args.command

vars == <<command, readerVars, monitorVars, scanVars>>

TypeOK ==
    /\ command \in {"monitor", "scan"}
    /\ MonitorTypeOK
    /\ ScanTypeOK

Init ==
    /\ command \in {"monitor", "scan"}
    /\ MonitorInit
    /\ ScanInit

Next ==
    \/ command = "monitor" /\ MonitorNext /\ UNCHANGED <<command, scanVars>>
    \/ command = "scan" /\ ScanNext /\ UNCHANGED <<command, readerVars, monitorVars>>

Spec == Init /\ [][Next]_vars

\* The threads are scheduled, transfers and commands have timeouts, and time
\* passes.
FairSpec ==
    /\ Spec
    /\ WF_vars(command = "monitor" /\ MonitorStep /\ UNCHANGED <<command, scanVars>>)
    /\ WF_vars(command = "monitor" /\ MonitorReader /\ UNCHANGED <<command, scanVars>>)
    /\ WF_vars(command = "monitor" /\ ClockTick /\ UNCHANGED <<command, scanVars>>)
    /\ WF_vars(command = "scan" /\ ScanStep
                 /\ UNCHANGED <<command, readerVars, monitorVars>>)
    /\ WF_vars(command = "scan" /\ Elapse
                 /\ UNCHANGED <<command, readerVars, monitorVars>>)

-----------------------------------------------------------------------------

\* A scan ends by itself, with or without reception; monitor ends after a
\* signal, the failure of the reader, or its duration.
Ends ==
    (command = "scan" \/ stop \/ rpc = "fail" \/ (Duration > 0 /\ clock >= Duration))
        ~> spc = "closed" \/ mon = "closed"
=============================================================================
