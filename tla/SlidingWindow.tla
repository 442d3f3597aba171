--------------------------- MODULE SlidingWindow ---------------------------
(***************************************************************************)
(* What a session's memory promises: the newest Size turns, oldest first.  *)
(* A turn enters whole, at most once, and pushes out only the oldest one.  *)
(***************************************************************************)
EXTENDS Naturals, Sequences

CONSTANTS Turns, Size

VARIABLE window

Newest(s) == IF Len(s) > Size THEN Tail(s) ELSE s

Init == window = <<>>

Remember(t) ==
    /\ \A i \in DOMAIN window : window[i] # t
    /\ window' = Newest(Append(window, t))

Next == \E t \in Turns : Remember(t)

Spec == Init /\ [][Next]_window
=============================================================================
