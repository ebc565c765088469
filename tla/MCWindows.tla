----------------------------- MODULE MCWindows -----------------------------
(* Windows with one instance.  As a part of its own, how the viewer finds   *)
(* out whether the plugin has inputs (XtProbe).                             *)
EXTENDS Windows, XtProbe

VARIABLE part    \* the part that runs

MCInit ==
    /\ Init /\ ProbeInit
    /\ part \in {"windows", "probe"}
    /\ part # "probe" =>
         context = [words |-> [o \in Offsets |-> [is |-> "other", value |-> 0]],
                    timerQueue |-> FALSE]

MCNext ==
    /\ UNCHANGED part
    /\ \/ part = "windows" /\ Next /\ UNCHANGED probeVars
       \/ part = "probe" /\ ProbeNext /\ UNCHANGED vars

\* Only the main loop of the first part goes on for ever.
MCSpec ==
    /\ MCInit /\ [][MCNext]_<<vars, probeVars, part>>
    /\ Fairness
=============================================================================
