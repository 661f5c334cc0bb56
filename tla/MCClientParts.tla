---------------------------- MODULE MCClientParts ----------------------------
(***************************************************************************)
(* Small values for ClientParts.  Three processes race for the token that  *)
(* the launcher rotates, two clients retry with the broker's; plans have   *)
(* two steps, one of them planned twice; three sessions are listed one by  *)
(* one.                                                                    *)
(***************************************************************************)
EXTENDS ClientParts

MCStepLists == {<<1, 2>>, <<1, 1>>}
MCRoles == [reviewer |-> "ask"]
MCTexts == {<<"|">>}
==============================================================================
