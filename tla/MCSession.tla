----------------------------- MODULE MCSession -----------------------------
(* Two tabs: one makes two calls at once, the other signs in or calls.     *)
EXTENDS Session, TLC

CONSTANTS t1, t2, a1, a2, in, code

MCTabOf == [r \in Request |-> IF r \in {a1, a2} THEN t1 ELSE t2]
MCKind == [r \in Request |-> IF r = in THEN "login" ELSE IF r = code THEN "mfa" ELSE "api"]
=============================================================================
