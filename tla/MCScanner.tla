------------------------------ MODULE MCScanner ------------------------------
(* A small instance of Scanner for TLC: three surfaces, honest servers     *)
(* whose lists end before, at and after the page cap, and liars.           *)
EXTENDS Scanner

CONSTANTS ok, bad, odd, boom, inv

MCItems == {ok, bad, odd, boom, inv}
MCKind == [x \in MCItems |-> CASE x = bad -> "flagged" [] x = boom -> "crash"
                               [] x = inv -> "invalid" [] OTHER -> "clean"]
MCPages == {{}, {ok, bad}, {odd, inv}}
MCCapabilityOf == <<"tools", "prompts", "resources">>

Clean == {ok, bad}
Short == <<{}>>
ToolBooks ==
  {Short, <<{}, Clean>>, <<Clean, {}, Clean>>, <<{}, Clean, {odd, inv}, Clean>>}
PromptBooks == {Short, <<Clean, Clean>>, <<{odd, inv}>>}
ResourceBooks == {Short, <<{odd, inv}, Clean>>}

Honest ==
  [lies : {{}}, discover : {"supported", "unsupported", "broken"},
   caps : {{}, {"tools"}, {"tools", "prompts"}, {"prompts", "resources"}},
   book : {<<a, b, c>> : a \in ToolBooks, b \in PromptBooks, c \in ResourceBooks},
   instructions : {NONE, bad, boom}]
Dishonest ==
  [lies : {{1}, {2}, {1, 3}}, discover : {"supported", "unsupported"},
   caps : {{}, {"tools", "resources"}},
   book : {<<<<{}, Clean>>, <<Clean, Clean>>, Short>>}, instructions : {NONE}]
MCServers == Honest \cup Dishonest
=============================================================================
