------------------------------- MODULE MCPage -------------------------------
(***************************************************************************)
(* The page: the parts of module Page, which share nothing with each       *)
(* other.  A behaviour is one of its part, and the others stand still.     *)
(*                                                                         *)
(* One exercise draws both tiers in one fence, one has a door for each, and*)
(* one has no door because its pin is stale.  Of themes and columns there  *)
(* are two pages, which have the browser's storage in common.              *)
(***************************************************************************)
EXTENDS Page, TLC

VARIABLE part  \* what the behaviour is about

pageVars == <<part, siteVars, themeVars, shellVars, splitVars, consoleVars>>

MCDoors == "twoDoors" :> <<{"today2"}, {"goal2"}>> @@ "oneDoor" :> <<{"today1", "goal1"}>>
           @@ "noDoor" :> <<>>
MCToday == "twoDoors" :> "today2" @@ "oneDoor" :> "today1" @@ "noDoor" :> "today0"

PageInit ==
  /\ part \in {"site", "theme", "shell", "splitter", "console"}
  /\ Routes!Init /\ Columns!Init /\ Output!Init
  /\ part # "theme" => dark = FALSE
  /\ Colours!Init
  /\ part # "splitter" => fraction = None
  /\ Splits!Init
PageNext ==
  /\ \/ /\ part = "site" /\ Routes!Next
        /\ UNCHANGED <<themeVars, shellVars, splitVars, consoleVars>>
     \/ /\ part = "theme" /\ Colours!Next
        /\ UNCHANGED <<siteVars, shellVars, splitVars, consoleVars>>
     \/ /\ part = "shell" /\ Columns!Next
        /\ UNCHANGED <<siteVars, themeVars, splitVars, consoleVars>>
     \/ /\ part = "splitter" /\ Splits!Next
        /\ UNCHANGED <<siteVars, themeVars, shellVars, consoleVars>>
     \/ /\ part = "console" /\ Output!Next
        /\ UNCHANGED <<siteVars, themeVars, shellVars, splitVars>>
  /\ UNCHANGED part
\* In the other parts nothing that these conditions are about is due.
PageSpec == PageInit /\ [][PageNext]_pageVars /\ Routes!Fairness /\ Colours!Fairness

-----------------------------------------------------------------------------
\* What the page has begun comes to an end: a view does not load for ever, a click
\* on See why opens its door, and every block of code gets the colours in force.
PageSettles == Routes!ClickOpens /\ Routes!ViewLoads /\ Colours!BlocksCatchUp
=============================================================================
