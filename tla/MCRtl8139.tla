----------------------------- MODULE MCRtl8139 -----------------------------
(* Instances of Rtl8139: a short and a long frame, and a link that carries *)
(* frames one way at a time.                                               *)
EXTENDS Rtl8139, TLC

MCFrames == {[size |-> 1, data |-> "a"], [size |-> 2, data |-> "b"]}
Symmetry == Permutations(Senders)

Sending == posted # << >> \/ tx_lock # NULL
Receiving == ring # << >> \/ has_frame

MCSpec == Init /\ [][Next /\ ~(Sending /\ Receiving)']_vars
=============================================================================
