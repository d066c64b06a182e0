------------------------------- MODULE Shell -------------------------------
(***************************************************************************)
(* The frame around an exercise (web/src/App.tsx, components/Sidebar.tsx   *)
(* and recommended.ts), in the pages of one browser that share what is     *)
(* saved (storage.ts): the list of exercises, which is a column or, on a   *)
(* narrow page, a drawer; the part of the catalogue it shows; and how each *)
(* exercise went.                                                          *)
(*                                                                         *)
(* A click, a key, a change of the width and a step in the history run     *)
(* their effects at once; React runs those of the first render later.      *)
(***************************************************************************)
EXTENDS Integers, FiniteSets

CONSTANTS Pages, None,
          Exercises, Recommended,
          MaxNews   \* bound on what happens

VARIABLES
  savedNav,     \* localStorage: the column is hidden
  savedStatus,  \* localStorage: "passed", "failed" or None of each exercise
  page,         \* of each page, see Blank
  news,         \* history: how much has happened
  result,       \* history: the last result of each exercise, in any page
  lost,         \* history: what could not be saved when it changed last
  insists       \* history: the pages that asked for the short list on this exercise

saved == <<savedNav, savedStatus, result, lost>>
vars == <<saved, page, news, insists>>

Blank == [stage |-> "closed", narrow |-> FALSE, current |-> None, nav |-> FALSE, open |-> FALSE,
          scope |-> "recommended", searching |-> FALSE, statuses |-> [e \in Exercises |-> None]]

DefaultScope(e) == IF e # None /\ e \notin Recommended THEN "all" ELSE "recommended"

\* The effect of a new route.
ScopeFor(scope, e) == IF e # None /\ e \notin Recommended THEN "all" ELSE scope

\* The effect of a new width.  Mutant: the drawer stays open behind the column.
OpenAsIs(open, narrow) == open
OpenAt(open, narrow) == open /\ narrow

Drawer(pg) == pg.narrow /\ pg.open
Happens == news < MaxNews /\ news' = news + 1
Does(p) == page[p].stage = "mounted" /\ Happens

\* savePref and saveStatus: storage may refuse.  Where it is blocked altogether
\* there is nothing to read either, so a read finds what was saved.
Loses(key, works) == lost' = IF works THEN lost \ {key} ELSE lost \cup {key}

-----------------------------------------------------------------------------
\* The first render reads what is saved, and the effects come later: that of the
\* column writes it back.
Open(p, e) ==
  /\ page[p].stage = "closed" /\ Happens
  /\ \E narrow \in BOOLEAN :
       page' = [page EXCEPT ![p] =
                  [Blank EXCEPT !.stage = "rendered", !.narrow = narrow, !.current = e, !.scope = DefaultScope(e),
                                !.nav = savedNav, !.statuses = savedStatus]]
  /\ insists' = insists \ {p} /\ UNCHANGED saved
Mount(p) ==
  /\ page[p].stage = "rendered"
  /\ page' = [page EXCEPT ![p].stage = "mounted", ![p].scope = ScopeFor(@, page[p].current)]
  /\ \E works \in BOOLEAN : savedNav' = IF works THEN page[p].nav ELSE savedNav
  /\ UNCHANGED <<savedStatus, result, lost, news, insists>>
Close(p) ==
  /\ page[p].stage # "closed" /\ page' = [page EXCEPT ![p] = Blank]
  /\ UNCHANGED <<saved, news, insists>>

\* The window of the page.
Resize(p) ==
  /\ Does(p) /\ UNCHANGED <<saved, insists>>
  /\ page' = [page EXCEPT ![p].narrow = ~@, ![p].open = OpenAt(@, ~page[p].narrow)]

\* The two toggles, of which one is visible, and what closes the drawer.
ToggleNav(p) ==
  /\ Does(p) /\ ~page[p].narrow
  /\ page' = [page EXCEPT ![p].nav = ~@]
  /\ \E works \in BOOLEAN : savedNav' = IF works THEN ~page[p].nav ELSE savedNav
  /\ UNCHANGED <<savedStatus, result, lost, insists>>
ToggleDrawer(p) ==
  /\ Does(p) /\ page[p].narrow
  /\ page' = [page EXCEPT ![p].open = ~@] /\ UNCHANGED <<saved, insists>>
CloseNav(p) ==
  /\ Does(p) /\ Drawer(page[p])
  /\ page' = [page EXCEPT ![p].open = FALSE] /\ UNCHANGED <<saved, insists>>

\* A link, of the list or not, or a step in the history.
Go(p, e, fromList) ==
  /\ Does(p) /\ e # page[p].current /\ (fromList => Drawer(page[p]) \/ ~page[p].narrow)
  /\ page' = [page EXCEPT ![p].current = e, ![p].scope = ScopeFor(@, e),
                          ![p].open = @ /\ ~fromList]
  /\ insists' = insists \ {p} /\ UNCHANGED saved

\* The field and the two buttons above the list.
Search(p) ==
  /\ Does(p) /\ page' = [page EXCEPT ![p].searching = ~@] /\ UNCHANGED <<saved, insists>>
SetScope(p, scope) ==
  /\ Does(p) /\ page[p].scope # scope /\ page' = [page EXCEPT ![p].scope = scope]
  /\ insists' = IF scope = "all" THEN insists \ {p} ELSE insists \cup {p}
  /\ UNCHANGED saved

\* The tests of the exercise that is open end, or its code changes.
Saves(pg, s) == s
SetStatus(p, s) ==
  LET e == page[p].current
  IN  /\ Does(p) /\ e # None
      /\ page' = [page EXCEPT ![p].statuses[e] = s] /\ result' = [result EXCEPT ![e] = s]
      /\ \E works \in BOOLEAN :
           /\ savedStatus' = IF works THEN [savedStatus EXCEPT ![e] = Saves(page[p], s)] ELSE savedStatus
           /\ Loses(e, works)
      /\ UNCHANGED <<savedNav, insists>>

\* items: the search, which finds any exercise, is over the whole catalogue.
Listed(pg) == IF pg.searching \/ pg.scope = "all" THEN Exercises ELSE Recommended

Init ==
  /\ savedNav = FALSE /\ savedStatus = [e \in Exercises |-> None]
  /\ page = [p \in Pages |-> Blank] /\ news = 0
  /\ result = savedStatus /\ lost = {} /\ insists = {}
Next ==
  \E p \in Pages :
    \/ Mount(p) \/ Close(p) \/ Resize(p) \/ ToggleNav(p) \/ ToggleDrawer(p) \/ CloseNav(p) \/ Search(p)
    \/ \E e \in Exercises \cup {None} : Open(p, e) \/ \E fromList \in BOOLEAN : Go(p, e, fromList)
    \/ \E scope \in {"all", "recommended"} : SetScope(p, scope)
    \/ \E s \in {"passed", "failed", None} : SetStatus(p, s)
Spec == Init /\ [][Next]_vars

-----------------------------------------------------------------------------
\* The drawer covers a page only after a click on its toggle: a page that was wide
\* in between does not become narrow with the drawer open (App.tsx:36-38).
DrawerOpensByClick ==
  [][\A p \in Pages : Drawer(page'[p]) /\ ~Drawer(page[p]) => ToggleDrawer(p)]_vars

\* "Opening a non-recommended exercise switches the list to All exercises"
\* (web/README.md:54): the exercise that is open is in the list, by whichever way
\* it was opened, unless the reader has asked for the short list since.
CurrentIsListed ==
  \A p \in Pages :
    page[p].stage = "mounted" /\ page[p].current # None /\ p \notin insists =>
      page[p].current \in Listed(page[p])

\* What the browser keeps of an exercise is its last result in any page, and a
\* page that shows another one is older than that result or could not save it.
LastResultKept == \A e \in Exercises : e \notin lost => savedStatus[e] = result[e]

\* What pages of one browser keep: the list fits the page, the drawer its click,
\* and the storage the last result.
ShellKeeps == []CurrentIsListed /\ []LastResultKept /\ DrawerOpensByClick
=============================================================================
