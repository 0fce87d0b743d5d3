----------------------------- MODULE MCConsole -----------------------------
EXTENDS Console

MCCon == 0..1

(* The parameters of a finished sequence are forgotten: ESsquare clears    *)
(* them before the next one looks at them.                                 *)
View ==
    <<egac, fg, mem, start, ops,
      [c \in Con |-> IF vc[c].state # "ESnormal" THEN vc[c]
                     ELSE [vc[c] EXCEPT !.npar = 0, !.par = NoPars, !.ques = FALSE]]>>

MCBoot == {<<1,2>>}
=============================================================================
