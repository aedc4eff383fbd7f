---------------------------- MODULE MCRecordings ----------------------------
(* Two recordings of one pane, under two names of one file.  One is started *)
(* by pane.record.start; the other may also be the cast of lens.run.        *)
EXTENDS Recordings, TLC

CONSTANTS r1, r2, p1, a, b

OneFile == [p \in Paths |-> CHOOSE f \in Files : TRUE]
Requests == (r1 :> {<<p1, a>>}) @@ (r2 :> {<<p1, b>>, <<None, a>>, <<None, b>>})
=============================================================================
