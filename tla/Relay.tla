-------------------------------- MODULE Relay --------------------------------
(***************************************************************************)
(* What a stage between the tuner and the output promises: the items it    *)
(* accepts come out in the order they went in, none twice, none invented;  *)
(* and when it says that it is done, all of them have come out.            *)
(***************************************************************************)
EXTENDS Sequences, SequencesExt

VARIABLES
    in,     \* everything the stage has accepted
    out,    \* everything it has passed on
    done    \* whether it has ended in the regular way

relayVars == <<in, out, done>>

RelayInit == in = <<>> /\ out = <<>> /\ done = FALSE

\* More is accepted, more is passed on, or both: never out of order, and never
\* anything that was not accepted.
Move ==
    /\ ~done
    /\ IsPrefix(in, in')
    /\ IsPrefix(out, out')
    /\ IsPrefix(out', in')
    /\ UNCHANGED done

\* The stage ends by passing on all that is left.
End ==
    /\ ~done
    /\ done'
    /\ out' = in
    /\ UNCHANGED in

RelaySpec == RelayInit /\ [][Move \/ End]_relayVars
=============================================================================
