----------------------------- MODULE MCOperator -----------------------------
(***************************************************************************)
(* Specs of CRs for the runs of OperatorProperties.  A host is the sequence*)
(* of its parts, dots and dashes included.                                 *)
(***************************************************************************)
EXTENDS OperatorProperties, TLC

CONSTANTS a, b

Host == <<"primos", ".", "com">>
Dotted == <<"a", ".", "b">>
With(mult, ruta, host) == [mult |-> mult, ruta |-> ruta, host |-> host]

\* One CR that moves between hosts, changes its multiplicador, or is invalid
\* and has no ruta.
Varied == [c \in CRs |-> {With(1, "x", Dotted), With(2, "x", Host),
                         With(0, Nil, Nil)}]

\* One CR that loses its ruta.
Cleared == [c \in CRs |-> {With(1, "x", Host), With(1, Nil, Host)}]

\* Two CRs that share a host, each with its own ruta.
Shared == [c \in CRs |-> {With(1, IF c = a THEN "x" ELSE "y", Host)}]
=============================================================================
