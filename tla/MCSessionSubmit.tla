-------------------------- MODULE MCSessionSubmit --------------------------
(***************************************************************************)
(* Small sessions for TLC: four submits, of which the first and third name *)
(* the project, the second leaves the form to the session's defaults, and  *)
(* the first and the last carry an anchor.  Three constraint lines, two of *)
(* them shared.                                                            *)
(***************************************************************************)
EXTENDS SessionSubmit, TLC

CONSTANTS r1, r2, r3, r4, f1, f2, f3, acme, apex

MCFactsOf == r1 :> {f1} @@ r2 :> {f2} @@ r3 :> {f2, f3} @@ r4 :> {}
MCNameOf == r1 :> acme @@ r2 :> NoName @@ r3 :> apex @@ r4 :> acme
=============================================================================
