------------------------------- MODULE XtProbe -------------------------------
(***************************************************************************)
(* How long the viewer's main loop may sleep depends on private data of    *)
(* libXt: the number of inputs and the timer queue of the application      *)
(* context (npw-viewer.c).  The viewer looks for them the first time it    *)
(* needs them.  It adds up to n_inputs_max inputs of its own, one by one,  *)
(* and takes the one 16 bit word that counts along for the counter; if     *)
(* there is none, or more than one, it never sleeps long.  By then the     *)
(* plugin may have inputs of its own, and may run out of descriptors.      *)
(*                                                                         *)
(* The words that are looked at: the counter, parts of the sets of         *)
(* descriptors, in which the viewer's own descriptors may be bits, and     *)
(* words that do not change with the inputs.                               *)
(***************************************************************************)
EXTENDS Integers, FiniteSets

CONSTANTS
    Offsets,        \* from low_offset to high_offset
    n_inputs_max,
    MaxOwn          \* bound: inputs of the plugin

ASSUME XtProbeAssumption == Offsets \subseteq Nat \ {0} /\ n_inputs_max \in Nat

VARIABLES
    context,             \* what is at each offset, and is timerQueue in its place?
    own,                 \* inputs of the plugin
    timed,               \* has the plugin added a timeout before?
    input_count_offset,  \* -1 before the probe, 0 if it did not find it
    compatible,          \* has_compatible_appcontext: -1, 0 or 1
    probed,              \* history: inputs of the plugin and of the probe at the time
    slept                \* what xt_get_next_timeout() answered last

probeVars == <<context, own, timed, input_count_offset, compatible, probed, slept>>

Words == {[is |-> "count", value |-> 0], [is |-> "bits", value |-> 0]} \cup
         [is : {"other"}, value : 0 .. n_inputs_max]

ProbeInit ==
    /\ context \in [words : [Offsets -> Words], timerQueue : BOOLEAN]
    /\ Cardinality({o \in Offsets : context.words[o].is = "count"}) <= 1
    /\ own = 0 /\ timed = FALSE
    /\ input_count_offset = -1 /\ compatible = -1
    /\ probed = [own |-> 0, inputs |-> 0]
    /\ slept = "none"

\* What is at an offset while the viewer has n inputs in the context.
get_appcontext_input_count_at(o, n) ==
    CASE context.words[o].is = "count" -> own + n
      [] context.words[o].is = "bits"  -> 2^n - 1
      [] OTHER -> context.words[o].value

\* As a slip would have it: the first input is enough.
CandidatesOnce(n) == {o \in Offsets : get_appcontext_input_count_at(o, 1) = 1}

\* The offsets that are left after n inputs, of which each was compared.
Candidates(n) == {o \in Offsets : \A k \in 1 .. n : get_appcontext_input_count_at(o, k) = k}

\* All inputs are removed again; without one there is no answer.
get_appcontext_input_count_offset(n) ==
    IF n > 0 /\ \E o \in Offsets : Candidates(n) = {o}
    THEN CHOOSE o \in Offsets : Candidates(n) = {o}
    ELSE 0

\* The answer is kept; without an offset it is as if there was an input.
get_appcontext_input_count(o) == IF o = 0 THEN 1 ELSE get_appcontext_input_count_at(o, 0)

\* A timeout of the viewer's own must be found at the head of the queue.
\* libXt keeps a record that it has freed, so that timeouts of the plugin
\* make this fail.
xt_has_compatible_appcontext_timerQueue == IF context.timerQueue /\ ~timed THEN 1 ELSE 0

\* xt_get_next_timeout(), of which the timers are left out: "long" is the
\* time to the next timer, if there is one, and otherwise no end.
xt_next_timeout(n) ==
    /\ compatible' = IF compatible < 0 THEN xt_has_compatible_appcontext_timerQueue ELSE compatible
    /\ IF compatible' = 1 /\ input_count_offset < 0
       THEN /\ input_count_offset' = get_appcontext_input_count_offset(n)
            /\ probed' = [own |-> own, inputs |-> n]
       ELSE UNCHANGED <<input_count_offset, probed>>
    /\ slept' = IF compatible' = 1 /\ get_appcontext_input_count(input_count_offset') <= 0
                THEN "long" ELSE "XT_DEFAULT_TIMEOUT"
    /\ UNCHANGED <<context, own, timed>>

\* External: the plugin adds and removes inputs and timeouts when the loop
\* does not sleep.
PluginInput(d) ==
    /\ own + d \in 0 .. MaxOwn
    /\ own' = own + d
    /\ slept' = "none"
    /\ UNCHANGED <<context, timed, input_count_offset, compatible, probed>>

PluginTimeout ==
    /\ timed' = TRUE
    /\ slept' = "none"
    /\ UNCHANGED <<context, own, input_count_offset, compatible, probed>>

ProbeNext ==
    \/ \E n \in 0 .. n_inputs_max : xt_next_timeout(n)
    \/ \E d \in {-1, 1} : PluginInput(d)
    \/ PluginTimeout

----------------------------------------------------------------------------
(* Properties *)

\* The loop never sleeps long while the plugin has an input, which GLib
\* does not poll: whatever the context holds, where or whether the counter
\* is in it, and whenever the probe ran.  The one exception are descriptors
\* that run out after the probe's first input, when the counter is not
\* there or the plugin had inputs before (get_appcontext_input_count_offset).
InputsAreNoticed ==
    /\ slept = "long"
    /\ \/ probed.inputs # 1
       \/ probed.own = 0 /\ \E o \in Offsets : context.words[o].is = "count"
    => own = 0
=============================================================================
