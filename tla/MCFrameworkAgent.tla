------------------------- MODULE MCFrameworkAgent -------------------------
(* A busy source whose one notice changes between a text without a theme    *)
(* and a web page that has it twice, once strong and once weak, and a quiet *)
(* one, where nothing is published.                                         *)
EXTENDS FrameworkAgent, TLC

CONSTANTS search, tender, software, weak, strong, dull

MCThemes == {software}
MCMentions == weak :> {software} @@ strong :> {software} @@ dull :> {}
MCCorroborates == weak :> {} @@ strong :> {software} @@ dull :> {}
MCRelevant == search :> {weak, strong, dull}
Notice(t) == [notice |-> tender, text |-> t]
MCPublishes == 1 :> {<<Notice(dull)>>, <<Notice(strong), Notice(weak)>>}
            @@ 2 :> {<<>>}
Flag(active, approval, listed) ==
  [active |-> active, approval |-> approval, listed |-> listed]
MCFlags == 1 :> {Flag(TRUE, FALSE, TRUE), Flag(TRUE, TRUE, TRUE)}
        @@ 2 :> {Flag(TRUE, FALSE, TRUE), Flag(FALSE, FALSE, TRUE), Flag(TRUE, FALSE, FALSE)}
=============================================================================
