----------------------------- MODULE MCRecovery -----------------------------
(* Recovery for TLC; and as a part of its own what plugin_init learns of   *)
(* the plugin before a viewer is started (ViewerInfo), with strings and    *)
(* lines around the size of the buffer.                                    *)
EXTENDS Recovery, ViewerInfo

CONSTANT char \* a character

VARIABLE part    \* the part that runs

x == [char |-> char]
said(n) == [tag |-> "other", len |-> n]
MCTexts == {<<>>, <<x, x>>, <<x, said(3)>>, <<x, x, x, x>>, <<x, Newline, x>>}
MCChatter ==
    {<<>>, <<x>>, <<x, Newline>>, <<x, x, x, x, Newline, x, x, x, Newline>>,
     <<said(2), Newline>>, <<x, said(1), Newline, said(4), Newline, x, Newline>>,
     <<said(0), Newline>>, <<said(4), x, x, x, Newline>>, <<said(1), Newline, said(9), Newline>>}

MCLibrary(name, desc, mime, chatter) ==
    [opens |-> TRUE, symbols |-> Symbols, beta1 |-> FALSE, chatter |-> chatter,
     answers |-> [PLUGIN_NAME |-> name, PLUGIN_DESC |-> desc, PLUGIN_MIME |-> mime]]
MCSomeLibrary == MCLibrary(<<x, x>>, <<>>, <<x, x, x, x>>, <<x, Newline>>)

MCPlugins ==
    {MCLibrary(name, desc, mime, chatter) :
        name, desc \in {NoText, <<>>, <<x, x>>, <<x, said(3)>>, <<x, Newline, x>>},
        mime \in {<<>>, <<x, x, x, x>>}, chatter \in MCChatter}
    \cup {[MCSomeLibrary EXCEPT !.opens = FALSE], [MCSomeLibrary EXCEPT !.beta1 = TRUE],
          [MCSomeLibrary EXCEPT !.symbols = Symbols \ {"NP_Shutdown"}],
          [MCLibrary(NoText, NoText, <<x, x>>, <<>>) EXCEPT !.symbols = Symbols \ {"NP_GetValue"}]}

MCInit ==
    /\ Init /\ InfoInit
    /\ part \in {"viewers", "info"}
    /\ part # "info" => library = MCSomeLibrary

\* The information is read once.
MCNext ==
    /\ UNCHANGED part
    /\ \/ part = "viewers" /\ Next /\ UNCHANGED infoVars
       \/ part = "info" /\ InfoNext /\ UNCHANGED vars
       \/ part = "info" /\ reading = "done" /\ UNCHANGED <<vars, infoVars>>

MCSpec ==
    /\ MCInit /\ [][MCNext]_<<vars, infoVars, part>>
    /\ Fairness
=============================================================================
