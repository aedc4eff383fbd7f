----------------------------- MODULE MCPanePty ------------------------------
(* A creating call and an attach client race for one pane, and the attach  *)
(* client comes back as often as it likes.                                 *)
EXTENDS PanePty

CONSTANT attach

MCAttacher == {attach}

=============================================================================
