---------------------------- MODULE MCMudClient ----------------------------
(* Small instances of MudClient for TLC.                                   *)
EXTENDS MudClient

MCInfoCmds == <<"score", "h", "tab">>

(* A question, a chain that must be answered, one that may be declined,    *)
(* two of three cards, a place, cards to check with a way to finish; and of*)
(* the guessed ones both cards of a sum, the counters of two cards, a name,*)
(* two of three places and two cards to check.                             *)
P(t, n, min, free) == [type |-> t, n |-> n, min |-> min, free |-> free, wants |-> kSubset(min, 1 .. n)]
Wants(p, S)        == [p EXCEPT !.wants = S]
MCPrompt == [effect   |-> P("yesno", 1, 1, FALSE),
             forced   |-> P("chain", 2, 1, FALSE),
             chain    |-> P("chain", 1, 1, TRUE),
             cards    |-> P("card", 3, 2, FALSE),
             place    |-> P("place", 2, 1, FALSE),
             unselect |-> P("unselect", 2, 1, TRUE),
             sum      |-> Wants(P("sum", 2, 1, FALSE), {{1, 2}}),
             counter  |-> P("counter", 2, 2, FALSE),
             name     |-> Wants(P("name", 1, 1, FALSE), {}),
             places   |-> P("place", 3, 2, FALSE),
             checks   |-> P("unselect", 2, 2, TRUE)]
=============================================================================
