------------------------------- MODULE MCTty -------------------------------
(* Two tasks of two groups.  The console is typed at, with its echo; the   *)
(* serial line is written to and may be set to a canonical mode; the input *)
(* of the pseudo terminal is what is written to its master.                *)
EXTENDS Tty

CONSTANTS t1, t2

MCPgrp == (t1 :> 1) @@ (t2 :> 2)
MCKeys == [con |-> {<<"a">>, <<"nl">>, <<"er">>, <<"a", "a">>, <<"stop">>},
           rs |-> {<<"a">>, <<"nl">>, <<"er">>},
           pty |-> {}]
MCTexts == [con |-> {<<"nl", "a">>},
            rs |-> {<<"a">>, <<"a", "a", "a">>},
            pty |-> {<<"a", "nl">>, <<"a", "kl", "a", "er">>, <<"eof", "intr", "susp", "a">>, <<"start">>}]
MCMaxTyped == [con |-> 3, rs |-> 2, pty |-> 0]
MCManyTyped == [con |-> 4, rs |-> 0, pty |-> 0]
MCMaxWritten == [con |-> 2, rs |-> 4, pty |-> 4]
MCSettings == {[ConMode EXCEPT !.ixon = TRUE]}
=============================================================================
