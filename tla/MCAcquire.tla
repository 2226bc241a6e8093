------------------------------ MODULE MCAcquire ------------------------------
(* Two URLs with packages of one name.                                       *)
EXTENDS Acquire

CONSTANTS u1, u2, f1, f2, a, b, c, x, y, n

Pkg(p, q) == [f \in File |-> IF f = f1 THEN p ELSE q]

(* No content in common; files edited, dropped, failing, warned about, and    *)
(* not routable.                                                            *)
Distinct == [u \in Url |-> IF u = u1 THEN {Pkg(a, b), Pkg(c, None), Pkg(a, x)}
                                     ELSE {Pkg(y, n)}]
=============================================================================
