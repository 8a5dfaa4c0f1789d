---------------------------- MODULE MCAesdServer ----------------------------
(* Small instances of the server.                                          *)
EXTENDS AesdServer, TLC

CONSTANTS c1, c2

(* One client whose packet takes two recv calls, and one with a short one. *)
TwoClients  == {c1, c2}
TwoScripts  == (c1 :> <<"short", "nl">>) @@ (c2 :> <<"nl">>)
TwoShort    == (c1 :> <<"nl">>) @@ (c2 :> <<"nl">>)
OneClient   == {c1}
OneScript   == c1 :> <<"short", "nl">>
OneShort    == c1 :> <<"nl">>
=============================================================================
