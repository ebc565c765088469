---------------------------- MODULE SharedThread ----------------------------
(***************************************************************************)
(* What NPAPI promises to a browser and a plugin that live in one process, *)
(* and what the comment in rpc_sync says the connection must preserve: one *)
(* thread, which runs the event loops of the two sides in turn.  A call    *)
(* goes from the side that has control to the other, the last call made is *)
(* the first that returns, and the loops take turns only when no call is   *)
(* open.                                                                   *)
(***************************************************************************)
EXTENDS Naturals, SequencesExt

CONSTANTS Methods, MaxCalls     \* bound: calls open at a time
VARIABLES loop,     \* whose event loop is at the bottom of the thread's stack
          calls     \* the open calls, innermost last

vars == <<loop, calls>>

OtherSide(s) == IF s = "wrapper" THEN "viewer" ELSE "wrapper"

\* The side that has control: the callee of the innermost call.
Control == IF calls = <<>> THEN loop ELSE OtherSide(Last(calls).caller)

Init == loop = "wrapper" /\ calls = <<>>

MakeCall(m) ==
    /\ Len(calls) < MaxCalls
    /\ calls' = Append(calls, [caller |-> Control, method |-> m])
    /\ UNCHANGED loop

Return ==
    /\ calls # <<>>
    /\ calls' = Front(calls)
    /\ UNCHANGED loop

TakeTurns ==
    /\ calls = <<>>
    /\ loop' = OtherSide(loop)
    /\ UNCHANGED calls

Next == (\E m \in Methods : MakeCall(m)) \/ Return \/ TakeTurns

Spec == Init /\ [][Next]_vars
=============================================================================
