------------------------------- MODULE Theme -------------------------------
(***************************************************************************)
(* The theme of the site (web/src/theme.ts) in the pages of one browser,   *)
(* and the code blocks of a document, which are coloured again whenever it *)
(* changes (web/src/components/Markdown.tsx).  All pages share what is     *)
(* saved (web/src/storage.ts) and the setting of the system.               *)
(*                                                                         *)
(* A click and a change of the system's setting run their effects before   *)
(* the browser does anything else; React runs the effects of the first     *)
(* render later.  The browser answers Monaco's colorize calls in order.    *)
(***************************************************************************)
EXTENDS Integers, SequencesExt

CONSTANTS Pages, None,
          MaxNews   \* bound on the clicks, changes and reloads

VARIABLES dark,   \* the system prefers dark
          saved,  \* localStorage: the preference, or None
          page,   \* of each page: [stage, told, pref, attr, monaco, listening, doc]
          news,   \* history: how much has happened
          chosen, \* history: the last preference a click chose, None before
          failed  \* history: that click could not save it

vars == <<dark, saved, page, news, chosen, failed>>

Prefs == {"system", "light", "dark"}
Next3(pref) == CASE pref = "system" -> "light" [] pref = "light" -> "dark" [] OTHER -> "system"
Effective(pref, d) == IF pref # "system" THEN pref ELSE IF d THEN "dark" ELSE "light"

\* savedPref: storage may throw, and then nothing is saved.
SavedPref(works) == IF works /\ saved # None THEN saved ELSE "system"

\* doc is None or [painted, asks]: the theme whose classes the blocks have, and
\* the colorize calls that have not been answered, each with the theme it found.
Asks(doc, theme) == IF doc = None THEN None ELSE [doc EXCEPT !.asks = Append(@, theme)]

\* apply, with its listeners.
Apply(pg, pref, d) ==
  [pg EXCEPT !.attr = IF pref = "system" THEN None ELSE pref,
             !.monaco = Effective(pref, d),
             !.doc = Asks(@, Effective(pref, d))]

\* The effect of a new preference, after the cleanup of the one before.
Effect(pg, pref) == [Apply(pg, pref, dark) EXCEPT !.pref = pref, !.listening = pref = "system"]

Happens == news < MaxNews /\ news' = news + 1

-----------------------------------------------------------------------------
Blank == [stage |-> "closed", told |-> FALSE, pref |-> "system", attr |-> None,
          monaco |-> "light", listening |-> FALSE, doc |-> None]

\* The module runs when a page loads.
Load(p) ==
  /\ IF page[p].stage = "closed" THEN news' = news ELSE Happens
  /\ \E works \in BOOLEAN :
       page' = [page EXCEPT ![p] = Apply([Blank EXCEPT !.stage = "loaded", !.told = dark], SavedPref(works), dark)]
  /\ UNCHANGED <<dark, saved, chosen, failed>>

\* The first render reads the preference, and its effect comes later.
Render(p) ==
  /\ page[p].stage = "loaded"
  /\ \E works \in BOOLEAN : page' = [page EXCEPT ![p].stage = "rendered", ![p].pref = SavedPref(works)]
  /\ UNCHANGED <<dark, saved, news, chosen, failed>>
\* Mutant: the effect leaves the theme to the module.
MountsWithout(pg) == [pg EXCEPT !.listening = pg.pref = "system"]
MountsWith(pg) == Effect(pg, pg.pref)
Mount(p) ==
  /\ page[p].stage = "rendered"
  /\ page' = [page EXCEPT ![p] = [MountsWith(@) EXCEPT !.stage = "mounted"]]
  /\ UNCHANGED <<dark, saved, news, chosen, failed>>

\* cycle.
Saves(pref) == Next3(pref)
Cycle(p) ==
  /\ page[p].stage = "mounted" /\ Happens
  /\ LET pref == Next3(page[p].pref)
     IN  /\ page' = [page EXCEPT ![p] = Effect(@, pref)]
         /\ chosen' = pref
         /\ \E works \in BOOLEAN :
              /\ saved' = IF works THEN Saves(page[p].pref) ELSE saved
              /\ failed' = ~works
  /\ UNCHANGED dark

\* The system changes its setting; every page hears of it in its next frame, and
\* the setting does not change twice in a frame.
SystemChanges ==
  /\ Happens /\ dark' = ~dark
  /\ \A p \in Pages : page[p].stage # "closed" => page[p].told = dark
  /\ UNCHANGED <<saved, page, chosen, failed>>
Hear(p) ==
  /\ page[p].stage # "closed" /\ page[p].told # dark
  /\ page' = [page EXCEPT ![p] = [(IF @.listening THEN Apply(@, "system", dark) ELSE @) EXCEPT !.told = dark]]
  /\ UNCHANGED <<dark, saved, news, chosen, failed>>

\* A document comes, with its first colouring, and goes.
OpenDoc(p) ==
  /\ page[p].stage \in {"rendered", "mounted"} /\ page[p].doc = None
  /\ page' = [page EXCEPT ![p].doc = [painted |-> None, asks |-> <<page[p].monaco>>]]
  /\ UNCHANGED <<dark, saved, news, chosen, failed>>
CloseDoc(p) ==
  /\ page[p].doc # None /\ Happens
  /\ page' = [page EXCEPT ![p].doc = None]
  /\ UNCHANGED <<dark, saved, chosen, failed>>

\* Monaco answers with the classes of the theme it had at the call, or has now.
Paint(p) ==
  /\ page[p].doc # None /\ page[p].doc.asks # <<>>
  /\ \E theme \in {Head(page[p].doc.asks), page[p].monaco} :
       page' = [page EXCEPT ![p].doc = [painted |-> theme, asks |-> Tail(@.asks)]]
  /\ UNCHANGED <<dark, saved, news, chosen, failed>>

Init == dark \in BOOLEAN /\ saved = None /\ page = [p \in Pages |-> Blank]
        /\ news = 0 /\ chosen = None /\ failed = FALSE
Next ==
  \/ SystemChanges
  \/ \E p \in Pages : Load(p) \/ Render(p) \/ Mount(p) \/ Cycle(p) \/ Hear(p)
                      \/ OpenDoc(p) \/ CloseDoc(p) \/ Paint(p)
Spec == Init /\ [][Next]_vars

\* The browser reports a change, React runs its effects, and Monaco answers.
Fairness == \A p \in Pages : WF_vars(Hear(p)) /\ WF_vars(Paint(p)) /\ WF_vars(Mount(p))
FairSpec == Spec /\ Fairness

-----------------------------------------------------------------------------
\* The variables keep their types, and a page listens to the system exactly
\* while its preference leaves the theme to the system.
ThemeTypeOK ==
  /\ saved \in Prefs \cup {None} /\ chosen \in Prefs \cup {None}
  /\ \A p \in Pages :
       LET pg == page[p]
       IN  /\ pg.pref \in Prefs /\ pg.monaco \in {"light", "dark"}
           /\ pg.listening = (pg.stage = "mounted" /\ pg.pref = "system")

\* The editor and the page agree with the preference and with the system, however
\* clicks and changes of the system's setting interleave with loading; only a
\* page that has not heard yet may be behind (theme.ts:20-25 and 41-47).
ThemeFits ==
  \A p \in Pages :
    LET pg == page[p]
    IN  pg.stage = "mounted" =>
          /\ pg.attr = IF pg.pref = "system" THEN None ELSE pg.pref
          /\ pg.told = dark => pg.monaco = Effective(pg.pref, dark)

\* "The output's classes belong to the current theme, so it is redone on every
\* theme change" (Markdown.tsx:126): blocks whose calls are all answered have
\* the colours of the editor.
BlocksFit ==
  \A p \in Pages :
    LET doc == page[p].doc IN doc # None /\ doc.asks = <<>> => doc.painted = page[p].monaco

\* What is saved is the last choice made in any page, unless that could not be
\* saved: a reload, and a page opened beside, begin with it.
LastChoiceKept == ~failed => saved = chosen

\* Every block gets its colours in the end, and those of the theme in force.
BlocksCatchUp ==
  \A p \in Pages :
    page[p].doc # None ~> page[p].doc = None \/ page[p].doc.painted = Effective(page[p].pref, dark)

\* What the pages and the storage agree on at any time.
ThemeInv == ThemeTypeOK /\ ThemeFits /\ BlocksFit /\ LastChoiceKept
=============================================================================
