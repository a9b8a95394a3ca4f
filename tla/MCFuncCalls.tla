----------------------------- MODULE MCFuncCalls -----------------------------
(* Small instances of FuncCalls for TLC: worker w1 of function fa calls        *)
(* function fb, which worker w2 serves and the gateway calls as well.          *)
EXTENDS FuncCalls, TLC

CONSTANTS fa, fb, w1, w2, x1, x2, g1, g2

MCFuncOf == (w1 :> fa) @@ (w2 :> fb)
MCCallee == [c \in Calls |-> IF c = x1 THEN fa ELSE fb]
MCCaller == [g \in NestedCalls |-> w1]
=============================================================================
