----------------------------- MODULE PageProofs -----------------------------
(***************************************************************************)
(* Proofs about the page (module Page), for any exercises, doors, pages of *)
(* one browser and fractions, and any number of clicks, news and renders.  *)
(* Its parts have an invariant each: SplitInv of the splitter, ShellInv of *)
(* the columns and lists, ThemeIInv of the theme, SiteIInv of routes,      *)
(* views and doors, and ConsoleIInv of the console, which fits what is     *)
(* read of everything that was said, for any texts cut into any pieces.    *)
(***************************************************************************)
EXTENDS Page, FiniteSetTheorems, SequenceTheorems, WellFoundedInduction, TLAPS

-----------------------------------------------------------------------------
(* The splitter. *)

Fractions == Low..High

\* The values the variables of the splitter take.
SplitTyped ==
  /\ shown \in Fractions /\ rendered \in Fractions
  /\ frac \in Fractions \cup {None} /\ fraction \in Fractions \cup {None}
  /\ dragging \in BOOLEAN /\ stale \in BOOLEAN /\ fractionLost \in BOOLEAN /\ other \in BOOLEAN

\* What the container shows is what the pointer or a key left, or what React wrote.
ShownFrom == shown = frac \/ shown = rendered

\* React wrote last what it read last, unless something was saved since.
ReadLast == ~stale => rendered = Splits!PaneFraction

\* A splitter that is let go shows what is saved, or the next render will.
Rests ==
  ~dragging /\ ~fractionLost /\ ~other => shown = Splits!PaneFraction \/ rendered # Splits!PaneFraction

SplitInv == SplitTyped /\ ShownFrom /\ ReadLast /\ Rests

LEMMA FractionTyped == ASSUME SplitTyped PROVE Splits!PaneFraction \in Fractions
  BY PageAssumption DEF SplitTyped, Fractions, Splits!PaneFraction

LEMMA ClampedTyped == ASSUME NEW f \in Int PROVE Splits!Clamped(f) \in Fractions
  BY PageAssumption DEF Fractions, Splits!Clamped

LEMMA SplitInit == Splits!Init => SplitInv
<1> SUFFICES ASSUME Splits!Init PROVE SplitInv OBVIOUS
<1>1. fraction \in Fractions \cup {None} /\ shown = Splits!PaneFraction BY DEF Splits!Init, Fractions
<1>2. Splits!PaneFraction \in Fractions BY <1>1, PageAssumption DEF Splits!PaneFraction, Fractions
<1> QED BY <1>1, <1>2 DEF Splits!Init, SplitInv, SplitTyped, ShownFrom, ReadLast, Rests

\* A save that the pointer or a key makes.
LEMMA SplitUp == SplitInv /\ Splits!Up => SplitInv'
<1> SUFFICES ASSUME SplitInv, Splits!Up PROVE SplitInv' OBVIOUS
<1> USE PageAssumption DEF Splits!Up, Splits!Persists
<1>1. SplitTyped' BY DEF SplitInv, SplitTyped, Fractions
<1>2. CASE frac = None
  BY <1>1, <1>2 DEF SplitInv, SplitTyped, ShownFrom, ReadLast, Rests, Fractions, Splits!PaneFraction
<1>3. CASE frac # None
  BY <1>1, <1>3 DEF SplitInv, SplitTyped, ShownFrom, ReadLast, Rests, Fractions, Splits!PaneFraction
<1> QED BY <1>2, <1>3

LEMMA SplitKey == ASSUME SplitInv, NEW step \in Int, Splits!Key(step) PROVE SplitInv'
<1>1. shown + step \in Int BY PageAssumption DEF SplitInv, SplitTyped, Fractions
<1>2. frac' \in Fractions /\ shown' = frac'
  BY <1>1, ClampedTyped DEF Splits!Key, Splits!SetTo
<1>3. frac' # None BY <1>2, PageAssumption DEF Fractions
<1>4. SplitTyped'
  BY <1>2, <1>3 DEF SplitInv, SplitTyped, Splits!Key, Splits!Persists
<1>5. PICK works \in BOOLEAN : /\ fraction' = (IF works THEN frac' ELSE fraction)
                               /\ stale' = (stale \/ works) /\ fractionLost' = ~works /\ other' = FALSE
  BY <1>3 DEF Splits!Key, Splits!Persists
<1>6. CASE works
  BY <1>2, <1>3, <1>4, <1>5, <1>6 DEF SplitInv, ShownFrom, ReadLast, Rests, Splits!PaneFraction
<1>7. CASE ~works
  BY <1>2, <1>4, <1>5, <1>7 DEF SplitInv, ShownFrom, ReadLast, Rests, Splits!PaneFraction, Splits!Key
<1> QED BY <1>5, <1>6, <1>7

LEMMA SplitMove == ASSUME SplitInv, NEW f \in Int, Splits!MoveTo(f) PROVE SplitInv'
<1>1. frac' \in Fractions /\ shown' = frac' BY ClampedTyped DEF Splits!MoveTo, Splits!SetTo
<1> QED
  BY <1>1 DEF SplitInv, SplitTyped, ShownFrom, ReadLast, Rests, Splits!PaneFraction, Splits!MoveTo

LEMMA SplitRender == SplitInv /\ Splits!Render => SplitInv'
<1> SUFFICES ASSUME SplitInv, Splits!Render PROVE SplitInv' OBVIOUS
<1>1. Splits!PaneFraction \in Fractions BY FractionTyped DEF SplitInv
<1>2. UNCHANGED <<frac, dragging, fraction, fractionLost, other>> /\ stale' = FALSE
  BY DEF Splits!Render
<1>3. rendered' = Splits!PaneFraction /\ Splits!PaneFraction' = Splits!PaneFraction
  BY <1>2 DEF Splits!Render, Splits!PaneFraction
<1>4. CASE Splits!PaneFraction # rendered
  <2>1. shown' = Splits!PaneFraction BY <1>4 DEF Splits!Render, Splits!Writes
  <2> QED BY <2>1, <1>1, <1>2, <1>3 DEF SplitInv, SplitTyped, ShownFrom, ReadLast, Rests
<1>5. CASE Splits!PaneFraction = rendered
  <2>1. shown' = shown BY <1>5 DEF Splits!Render, Splits!Writes
  <2> QED BY <2>1, <1>1, <1>2, <1>3, <1>5 DEF SplitInv, SplitTyped, ShownFrom, ReadLast, Rests
<1> QED BY <1>4, <1>5

LEMMA SplitRemount == SplitInv /\ Splits!Remount => SplitInv'
  BY FractionTyped DEF SplitInv, SplitTyped, ShownFrom, ReadLast, Rests, Splits!PaneFraction, Splits!Remount

LEMMA SplitOther == ASSUME SplitInv, NEW f \in Fractions, Splits!OtherPage(f) PROVE SplitInv'
  BY DEF SplitInv, SplitTyped, ShownFrom, ReadLast, Rests, Splits!OtherPage

LEMMA SplitStep == SplitInv /\ [Splits!Next]_(Splits!vars) => SplitInv'
<1> SUFFICES ASSUME SplitInv, [Splits!Next]_(Splits!vars) PROVE SplitInv' OBVIOUS
<1>1. CASE Splits!Down
  BY <1>1 DEF SplitInv, SplitTyped, ShownFrom, ReadLast, Rests, Splits!PaneFraction, Splits!Down
<1>2. CASE UNCHANGED Splits!vars
  BY <1>2 DEF SplitInv, SplitTyped, ShownFrom, ReadLast, Rests, Splits!PaneFraction, Splits!vars
<1>3. ASSUME NEW f \in -1..(Whole + 1), Splits!MoveTo(f) PROVE SplitInv'
  BY <1>3, SplitMove, PageAssumption
<1>4. ASSUME NEW step \in {-Step, Step}, Splits!Key(step) PROVE SplitInv'
  BY <1>4, SplitKey, PageAssumption
<1>5. ASSUME NEW f \in Low..High, Splits!OtherPage(f) PROVE SplitInv'
  BY <1>5, SplitOther DEF Fractions
<1> QED BY <1>1, <1>2, <1>3, <1>4, <1>5, SplitUp, SplitRender, SplitRemount DEF Splits!Next

LEMMA SplitAlways == Splits!Spec => []SplitInv
  BY SplitInit, SplitStep, PTL DEF Splits!Spec

LEMMA SplitImplies == SplitInv => Splits!PaneStaysInside /\ Splits!SettledIsSaved
  BY DEF SplitInv, SplitTyped, ReadLast, Rests, Fractions, Splits!PaneStaysInside, Splits!SettledIsSaved

\* A render in a drag reads what the render before read, if nothing was saved since.
LEMMA SplitDrag ==
  SplitInv /\ [Splits!Next]_(Splits!vars) => [Splits!Render /\ dragging /\ ~stale => shown' = shown]_(Splits!vars)
  BY DEF SplitInv, ReadLast, Splits!Render, Splits!Writes

\* Wherever the pointer goes, whichever keys are pressed and whatever the other page
\* saves: neither pane vanishes, a splitter that is let go stands where a reload
\* finds it, and a render does not take it from under the pointer (Splitter.tsx).
THEOREM SplitterIsKept == Splits!Spec => SplitterKeeps
<1>1. Splits!Spec => []SplitInv BY SplitAlways
<1>2. Splits!Spec => [][Splits!Next]_(Splits!vars) BY PTL DEF Splits!Spec
<1> QED BY <1>1, <1>2, SplitImplies, SplitDrag, PTL
  DEF SplitterKeeps, Splits!SplitterKeeps, Splits!DragSurvivesRender

-----------------------------------------------------------------------------
(* The columns and lists. *)

Results == {"passed", "failed", None}
Frame == [stage : {"closed", "rendered", "mounted"}, narrow : BOOLEAN, current : Catalogue \cup {None},
          nav : BOOLEAN, open : BOOLEAN, scope : {"all", "recommended"}, searching : BOOLEAN,
          statuses : [Catalogue -> Results]]

\* The values the variables of the frame take.
ShellTyped ==
  /\ savedNav \in BOOLEAN /\ savedStatus \in [Catalogue -> Results] /\ result \in [Catalogue -> Results]
  /\ page \in [Pages -> Frame]

\* The drawer of a page that is wide is closed.
DrawerFits == \A p \in Pages : page[p].open => page[p].narrow

\* The list of a page is long enough for its exercise, or was asked to be short.
Long(pg) == pg.current \in Catalogue \ Recommended => pg.scope = "all"
ScopeFits == \A p \in Pages : page[p].stage = "mounted" /\ p \notin insists => Long(page[p])

ShellInv == ShellTyped /\ DrawerFits /\ ScopeFits /\ Columns!LastResultKept

\* A step that gives one page another frame.
Reframes(p, pg) ==
  /\ page' = [page EXCEPT ![p] = pg]
  /\ pg \in Frame /\ (pg.open => pg.narrow)

LEMMA BlankFrame == Columns!Blank \in Frame /\ Columns!Blank.open = FALSE /\ Columns!Blank.stage = "closed"
  BY DEF Columns!Blank, Frame, Results

LEMMA Reframed ==
  ASSUME ShellInv, NEW p \in Pages, NEW pg, Reframes(p, pg),
         savedNav' \in BOOLEAN, UNCHANGED <<savedStatus, result, lost>>,
         insists' \in {insists, insists \ {p}, insists \cup {p}},
         pg.stage = "mounted" /\ p \notin insists' => Long(pg)
  PROVE  ShellInv'
<1>1. page' \in [Pages -> Frame] BY DEF ShellInv, ShellTyped, Reframes
<1>2. page'[p] = pg /\ \A q \in Pages : q # p => page'[q] = page[q] BY DEF ShellInv, ShellTyped, Reframes
<1>3. DrawerFits' BY <1>2 DEF ShellInv, DrawerFits, Reframes
<1>4. ScopeFits' BY <1>2 DEF ShellInv, ScopeFits
<1>5. Columns!LastResultKept' BY DEF ShellInv, Columns!LastResultKept
<1> QED BY <1>1, <1>3, <1>4, <1>5 DEF ShellInv, ShellTyped

LEMMA PageOf == ASSUME ShellInv, NEW p \in Pages
                PROVE /\ page[p] \in Frame /\ (page[p].open => page[p].narrow)
                      /\ page[p].stage = "mounted" /\ p \notin insists => Long(page[p])
  BY DEF ShellInv, ShellTyped, DrawerFits, ScopeFits

LEMMA ShellInit == Columns!Init => ShellInv
<1> SUFFICES ASSUME Columns!Init PROVE ShellInv OBVIOUS
<1>1. ShellTyped /\ DrawerFits /\ ScopeFits
  BY BlankFrame DEF Columns!Init, ShellTyped, Results, DrawerFits, ScopeFits
<1> QED BY <1>1 DEF Columns!Init, ShellInv, Columns!LastResultKept

\* The effect of a new route leaves a list that has the exercise.
LEMMA ScopeHolds ==
  ASSUME NEW scope \in {"all", "recommended"}, NEW e
  PROVE  /\ Columns!ScopeFor(scope, e) \in {"all", "recommended"}
         /\ e \in Catalogue \ Recommended => Columns!ScopeFor(scope, e) = "all"
  BY PageAssumption DEF Columns!ScopeFor

LEMMA ShellOpen == ASSUME ShellInv, NEW p \in Pages, NEW e \in Catalogue \cup {None}, Columns!Open(p, e) PROVE ShellInv'
<1>1. PICK narrow \in BOOLEAN :
        page' = [page EXCEPT ![p] =
                  [Columns!Blank EXCEPT !.stage = "rendered", !.narrow = narrow, !.current = e,
                       !.scope = Columns!DefaultScope(e), !.nav = savedNav, !.statuses = savedStatus]]
  BY DEF Columns!Open
<1>2. PICK pg : pg = [Columns!Blank EXCEPT !.stage = "rendered", !.narrow = narrow, !.current = e,
                       !.scope = Columns!DefaultScope(e), !.nav = savedNav, !.statuses = savedStatus]
  OBVIOUS
<1>3. pg \in Frame /\ pg.open = FALSE /\ pg.stage = "rendered"
  BY <1>2 DEF Columns!Blank, Frame, ShellInv, ShellTyped, Columns!DefaultScope
<1> QED BY <1>1, <1>2, <1>3, Reframed DEF Reframes, Columns!Open, Columns!saved, ShellInv, ShellTyped

LEMMA ShellMount == ASSUME ShellInv, NEW p \in Pages, Columns!Mount(p) PROVE ShellInv'
<1>1. PICK pg : pg = [page[p] EXCEPT !.stage = "mounted", !.scope = Columns!ScopeFor(@, page[p].current)] OBVIOUS
<1>2. page' = [page EXCEPT ![p] = pg] BY <1>1 DEF Columns!Mount, ShellInv, ShellTyped
<1>3. pg \in Frame /\ (pg.open => pg.narrow) /\ Long(pg)
  <2>1. page[p] \in Frame /\ (page[p].open => page[p].narrow) BY PageOf
  <2>2. /\ Columns!ScopeFor(page[p].scope, page[p].current) \in {"all", "recommended"}
        /\ Long([page[p] EXCEPT !.scope = Columns!ScopeFor(@, page[p].current)])
    BY <2>1, ScopeHolds DEF Frame, Long
  <2> QED BY <1>1, <2>1, <2>2 DEF Frame, Long
<1>4. savedNav' \in BOOLEAN BY PageOf DEF Frame, Columns!Mount, ShellInv, ShellTyped
<1> QED BY <1>2, <1>3, <1>4, Reframed DEF Reframes, Columns!Mount

LEMMA ShellClose == ASSUME ShellInv, NEW p \in Pages, Columns!Close(p) PROVE ShellInv'
  BY BlankFrame, Reframed DEF Columns!Close, Columns!saved, Reframes, ShellInv, ShellTyped

LEMMA ShellResize == ASSUME ShellInv, NEW p \in Pages, Columns!Resize(p) PROVE ShellInv'
<1>1. PICK pg : pg = [page[p] EXCEPT !.narrow = ~@, !.open = Columns!OpenAt(@, ~page[p].narrow)] OBVIOUS
<1>2. page' = [page EXCEPT ![p] = pg] BY <1>1 DEF Columns!Resize, ShellInv, ShellTyped
<1>3. /\ pg \in Frame /\ (pg.open => pg.narrow)
      /\ pg.stage = "mounted" /\ p \notin insists => Long(pg)
  BY <1>1, PageOf DEF Frame, Columns!OpenAt, Long
<1> QED BY <1>2, <1>3, Reframed DEF Reframes, Columns!Resize, Columns!saved, ShellInv, ShellTyped

LEMMA ShellToggleNav == ASSUME ShellInv, NEW p \in Pages, Columns!ToggleNav(p) PROVE ShellInv'
<1>1. PICK pg : pg = [page[p] EXCEPT !.nav = ~@] OBVIOUS
<1>2. page' = [page EXCEPT ![p] = pg] BY <1>1 DEF Columns!ToggleNav, ShellInv, ShellTyped
<1>3. /\ pg \in Frame /\ (pg.open => pg.narrow)
      /\ pg.stage = "mounted" /\ p \notin insists => Long(pg)
  BY <1>1, PageOf DEF Frame, Long
<1>4. savedNav' \in BOOLEAN BY PageOf DEF Frame, Columns!ToggleNav, ShellInv, ShellTyped
<1> QED BY <1>2, <1>3, <1>4, Reframed DEF Reframes, Columns!ToggleNav

LEMMA ShellDrawer ==
  ASSUME ShellInv, NEW p \in Pages, Columns!ToggleDrawer(p) \/ Columns!CloseNav(p) PROVE ShellInv'
<1>1. PICK b \in BOOLEAN : /\ b => page[p].narrow
                           /\ page' = [page EXCEPT ![p] = [page[p] EXCEPT !.open = b]]
  BY PageOf DEF Columns!ToggleDrawer, Columns!CloseNav, ShellInv, ShellTyped, Frame
<1>2. PICK pg : pg = [page[p] EXCEPT !.open = b] OBVIOUS
<1>3. /\ pg \in Frame /\ (pg.open => pg.narrow)
      /\ pg.stage = "mounted" /\ p \notin insists => Long(pg)
  BY <1>1, <1>2, PageOf DEF Frame, Long
<1> QED BY <1>1, <1>2, <1>3, Reframed
  DEF Reframes, Columns!ToggleDrawer, Columns!CloseNav, Columns!saved, ShellInv, ShellTyped

LEMMA ShellGo ==
  ASSUME ShellInv, NEW p \in Pages, NEW e \in Catalogue \cup {None}, NEW fromList \in BOOLEAN,
         Columns!Go(p, e, fromList)
  PROVE  ShellInv'
<1>1. PICK pg : pg = [page[p] EXCEPT !.current = e, !.scope = Columns!ScopeFor(@, e), !.open = @ /\ ~fromList] OBVIOUS
<1>2. page' = [page EXCEPT ![p] = pg] BY <1>1 DEF Columns!Go, ShellInv, ShellTyped
<1>3. pg \in Frame /\ (pg.open => pg.narrow) /\ Long(pg)
  <2>1. page[p] \in Frame /\ (page[p].open => page[p].narrow) BY PageOf
  <2>2. /\ Columns!ScopeFor(page[p].scope, e) \in {"all", "recommended"}
        /\ e \in Catalogue \ Recommended => Columns!ScopeFor(page[p].scope, e) = "all"
    BY <2>1, ScopeHolds DEF Frame
  <2> QED BY <1>1, <2>1, <2>2 DEF Frame, Long
<1> QED BY <1>2, <1>3, Reframed DEF Reframes, Columns!Go, Columns!saved, ShellInv, ShellTyped

LEMMA ShellSearch == ASSUME ShellInv, NEW p \in Pages, Columns!Search(p) PROVE ShellInv'
<1>1. PICK pg : pg = [page[p] EXCEPT !.searching = ~@] OBVIOUS
<1>2. page' = [page EXCEPT ![p] = pg] BY <1>1 DEF Columns!Search, ShellInv, ShellTyped
<1>3. /\ pg \in Frame /\ (pg.open => pg.narrow)
      /\ pg.stage = "mounted" /\ p \notin insists => Long(pg)
  BY <1>1, PageOf DEF Frame, Long
<1> QED BY <1>2, <1>3, Reframed DEF Reframes, Columns!Search, Columns!saved, ShellInv, ShellTyped

LEMMA ShellScope ==
  ASSUME ShellInv, NEW p \in Pages, NEW scope \in {"all", "recommended"}, Columns!SetScope(p, scope)
  PROVE  ShellInv'
<1>1. PICK pg : pg = [page[p] EXCEPT !.scope = scope] OBVIOUS
<1>2. page' = [page EXCEPT ![p] = pg] BY <1>1 DEF Columns!SetScope, ShellInv, ShellTyped
<1>3. /\ pg \in Frame /\ (pg.open => pg.narrow)
      /\ p \notin insists' => Long(pg)
  BY <1>1, PageOf DEF Frame, Long, Columns!SetScope
<1> QED BY <1>2, <1>3, Reframed DEF Reframes, Columns!SetScope, Columns!saved, ShellInv, ShellTyped

LEMMA ShellStatus ==
  ASSUME ShellInv, NEW p \in Pages, NEW s \in Results, Columns!SetStatus(p, s)
  PROVE  ShellInv'
<1>1. PICK e : e = page[p].current OBVIOUS
<1>2. e \in Catalogue BY <1>1, PageOf DEF Columns!SetStatus, Frame
<1>3. PICK works \in BOOLEAN :
        /\ savedStatus' = IF works THEN [savedStatus EXCEPT ![e] = s] ELSE savedStatus
        /\ lost' = IF works THEN lost \ {e} ELSE lost \cup {e}
  BY <1>1 DEF Columns!SetStatus, Columns!Loses, Columns!Saves
<1>4. result' = [result EXCEPT ![e] = s] /\ UNCHANGED <<savedNav, insists>>
  BY <1>1 DEF Columns!SetStatus
<1>5. PICK pg : pg = [page[p] EXCEPT !.statuses[e] = s] OBVIOUS
<1>6. page' = [page EXCEPT ![p] = pg] BY <1>1, <1>5 DEF Columns!SetStatus, ShellInv, ShellTyped
<1>7. /\ pg \in Frame /\ (pg.open => pg.narrow)
      /\ pg.stage = "mounted" /\ p \notin insists => Long(pg)
  BY <1>5, <1>2, PageOf DEF Frame, Long
<1>8. page'[p] = pg /\ \A q \in Pages : q # p => page'[q] = page[q] BY <1>6 DEF ShellInv, ShellTyped
<1>9. ShellTyped' BY <1>2, <1>3, <1>4, <1>6, <1>7 DEF ShellInv, ShellTyped
<1>10. DrawerFits' /\ ScopeFits' BY <1>4, <1>7, <1>8 DEF ShellInv, DrawerFits, ScopeFits
<1>11. Columns!LastResultKept' BY <1>2, <1>3, <1>4 DEF ShellInv, ShellTyped, Columns!LastResultKept
<1> QED BY <1>9, <1>10, <1>11 DEF ShellInv

LEMMA ShellStep == ShellInv /\ [Columns!Next]_(Columns!vars) => ShellInv'
<1> SUFFICES ASSUME ShellInv, [Columns!Next]_(Columns!vars) PROVE ShellInv' OBVIOUS
<1>1. CASE UNCHANGED Columns!vars
  BY <1>1 DEF ShellInv, ShellTyped, DrawerFits, ScopeFits, Columns!LastResultKept, Columns!vars, Columns!saved
<1>2. CASE Columns!Next
  <2>1. PICK p \in Pages :
          \/ Columns!Mount(p) \/ Columns!Close(p) \/ Columns!Resize(p) \/ Columns!ToggleNav(p)
          \/ Columns!ToggleDrawer(p) \/ Columns!CloseNav(p) \/ Columns!Search(p)
          \/ \E e \in Catalogue \cup {None} :
               Columns!Open(p, e) \/ \E fromList \in BOOLEAN : Columns!Go(p, e, fromList)
          \/ \E scope \in {"all", "recommended"} : Columns!SetScope(p, scope)
          \/ \E s \in Results : Columns!SetStatus(p, s)
    BY <1>2 DEF Columns!Next, Results
  <2> QED BY <2>1, ShellMount, ShellClose, ShellResize, ShellToggleNav, ShellDrawer, ShellSearch,
             ShellOpen, ShellGo, ShellScope, ShellStatus
<1> QED BY <1>1, <1>2

LEMMA ShellAlways == Columns!Spec => []ShellInv
  BY ShellInit, ShellStep, PTL DEF Columns!Spec

LEMMA ShellImplies == ShellInv => Columns!CurrentIsListed /\ Columns!LastResultKept
<1> SUFFICES ASSUME ShellInv, NEW p \in Pages,
                    page[p].stage = "mounted", page[p].current # None, p \notin insists
             PROVE  page[p].current \in Columns!Listed(page[p])
  BY DEF ShellInv, Columns!CurrentIsListed
<1>1. page[p].current \in Catalogue /\ Long(page[p]) BY PageOf DEF Frame
<1> QED BY <1>1 DEF Long, Columns!Listed

\* Only its toggle opens a drawer.
LEMMA DrawerStep ==
  ASSUME ShellInv, Columns!Next, NEW p \in Pages, Columns!Drawer(page'[p]), ~Columns!Drawer(page[p])
  PROVE  Columns!ToggleDrawer(p)
<1>1. PICK q \in Pages :
          \/ Columns!Mount(q) \/ Columns!Close(q) \/ Columns!Resize(q) \/ Columns!ToggleNav(q)
          \/ Columns!ToggleDrawer(q) \/ Columns!CloseNav(q) \/ Columns!Search(q)
          \/ \E e \in Catalogue \cup {None} :
               Columns!Open(q, e) \/ \E fromList \in BOOLEAN : Columns!Go(q, e, fromList)
          \/ \E scope \in {"all", "recommended"} : Columns!SetScope(q, scope)
          \/ \E s \in Results : Columns!SetStatus(q, s)
  BY DEF Columns!Next, Results
<1>2. page' = [page EXCEPT ![q] = page'[q]]
  <2> page \in [Pages -> Frame] BY DEF ShellInv, ShellTyped
  <2>1. CASE \/ Columns!Mount(q) \/ Columns!Close(q) \/ Columns!Resize(q) \/ Columns!ToggleNav(q)
             \/ Columns!ToggleDrawer(q) \/ Columns!CloseNav(q) \/ Columns!Search(q)
    BY <2>1 DEF Columns!Mount, Columns!Close, Columns!Resize, Columns!ToggleNav, Columns!ToggleDrawer,
       Columns!CloseNav, Columns!Search
  <2>2. CASE \E e \in Catalogue \cup {None} : Columns!Open(q, e)
    BY <2>2 DEF Columns!Open
  <2>3. CASE \E e \in Catalogue \cup {None}, fromList \in BOOLEAN : Columns!Go(q, e, fromList)
    BY <2>3 DEF Columns!Go
  <2>4. CASE \E scope \in {"all", "recommended"} : Columns!SetScope(q, scope)
    BY <2>4 DEF Columns!SetScope
  <2>5. CASE \E s \in Results : Columns!SetStatus(q, s)
    BY <2>5 DEF Columns!SetStatus
  <2> QED BY <1>1, <2>1, <2>2, <2>3, <2>4, <2>5
<1>3. p = q BY <1>2 DEF ShellInv, ShellTyped, Columns!Drawer
<1>4. page \in [Pages -> Frame] /\ page[p] \in Frame /\ (page[p].open => page[p].narrow) BY PageOf DEF ShellInv, ShellTyped
<1>5. CASE Columns!Mount(p) BY <1>4, <1>5 DEF Columns!Mount, Columns!Drawer, Frame
<1>6. CASE Columns!Close(p) BY <1>4, <1>6 DEF Columns!Close, Columns!Drawer, Columns!Blank
<1>7. CASE Columns!Resize(p) BY <1>4, <1>7 DEF Columns!Resize, Columns!OpenAt, Columns!Drawer, Frame
<1>8. CASE Columns!ToggleNav(p) BY <1>4, <1>8 DEF Columns!ToggleNav, Columns!Drawer, Frame
<1>9. CASE Columns!CloseNav(p) BY <1>4, <1>9 DEF Columns!CloseNav, Columns!Drawer, Frame
<1>10. CASE Columns!Search(p) BY <1>4, <1>10 DEF Columns!Search, Columns!Drawer, Frame
<1>11. ASSUME NEW e \in Catalogue \cup {None}, Columns!Open(p, e) PROVE FALSE
  BY <1>4, <1>11 DEF Columns!Open, Columns!Drawer, Columns!Blank
<1>12. ASSUME NEW e \in Catalogue \cup {None}, NEW fromList \in BOOLEAN, Columns!Go(p, e, fromList) PROVE FALSE
  BY <1>4, <1>12 DEF Columns!Go, Columns!Drawer, Frame
<1>13. ASSUME NEW scope \in {"all", "recommended"}, Columns!SetScope(p, scope) PROVE FALSE
  BY <1>4, <1>13 DEF Columns!SetScope, Columns!Drawer, Frame
<1>14. ASSUME NEW s \in Results, Columns!SetStatus(p, s) PROVE FALSE
  BY <1>4, <1>14 DEF Columns!SetStatus, Columns!Drawer, Frame
<1> QED BY <1>1, <1>3, <1>5, <1>6, <1>7, <1>8, <1>9, <1>10, <1>11, <1>12, <1>13, <1>14

LEMMA DrawersByClick ==
  ShellInv /\ [Columns!Next]_(Columns!vars) =>
    [\A p \in Pages : Columns!Drawer(page'[p]) /\ ~Columns!Drawer(page[p]) => Columns!ToggleDrawer(p)]_(Columns!vars)
  BY DrawerStep

\* For any pages of one browser and any exercises: the list shows the exercise of the
\* page, only its toggle opens the drawer, and what the browser keeps of an exercise
\* is its last result (App.tsx).
THEOREM ShellIsKept == Columns!Spec => ShellKeeps
<1>1. Columns!Spec => []ShellInv BY ShellAlways
<1>2. Columns!Spec => [][Columns!Next]_(Columns!vars) BY PTL DEF Columns!Spec
<1> QED BY <1>1, <1>2, ShellImplies, DrawersByClick, PTL
  DEF ShellKeeps, Columns!ShellKeeps, Columns!DrawerOpensByClick

-----------------------------------------------------------------------------
(* The theme. *)

Prefs == {"system", "light", "dark"}
Themes == {"light", "dark"}

\* The theme of a page: its preference, the editor's theme and what the page says.
Fits(pg, d) ==
  /\ pg.pref \in Prefs /\ pg.monaco \in Themes /\ pg.told \in BOOLEAN
  /\ pg.stage \in {"closed", "loaded", "rendered", "mounted"}
  /\ pg.listening = (pg.stage = "mounted" /\ pg.pref = "system")
  /\ pg.stage = "mounted" =>
       /\ pg.attr = IF pg.pref = "system" THEN None ELSE pg.pref
       /\ pg.pref # "system" => pg.monaco = pg.pref
       /\ pg.told = d => pg.monaco = Colours!Effective(pg.pref, d)

\* The blocks of a document have the colours of the editor, or the last call that
\* is to be answered found them.
Painted(doc, monaco) ==
  doc # None =>
    /\ doc.asks \in Seq(Themes)
    /\ IF doc.asks = <<>> THEN doc.painted = monaco ELSE doc.asks[Len(doc.asks)] = monaco

PageFields == {"stage", "told", "pref", "attr", "monaco", "listening", "doc"}
DocFields == {"painted", "asks"}
\* What a page is: the fields it has, and their values.
Shaped(pg) ==
  /\ pg = [f \in PageFields |-> pg[f]]
  /\ pg.doc = None \/ pg.doc = [f \in DocFields |-> pg.doc[f]]

GoodPage(pg, d) == Shaped(pg) /\ Fits(pg, d) /\ Painted(pg.doc, pg.monaco)

ThemeIInv ==
  /\ dark \in BOOLEAN /\ pref \in Prefs \cup {None} /\ chosen \in Prefs \cup {None}
  /\ themes = [p \in Pages |-> themes[p]] /\ \A p \in Pages : GoodPage(themes[p], dark)
  /\ Colours!LastChoiceKept

\* What Append, Tail and a sequence of one are.
LEMMA AppendedOne ==
  ASSUME NEW S, NEW s \in Seq(S), NEW x \in S
  PROVE  Append(s, x) \in Seq(S) /\ Append(s, x) # <<>> /\ Append(s, x)[Len(Append(s, x))] = x
  BY AppendProperties

LEMMA OnlyOne ==
  ASSUME NEW S, NEW x \in S
  PROVE  <<x>> \in Seq(S) /\ <<x>> # <<>> /\ <<x>>[Len(<<x>>)] = x
  OBVIOUS

LEMMA TailLast ==
  ASSUME NEW S, NEW s \in Seq(S), s # <<>>
  PROVE  /\ Tail(s) \in Seq(S)
         /\ Tail(s) = <<>> => Head(s) = s[Len(s)]
         /\ Tail(s) # <<>> => Tail(s)[Len(Tail(s))] = s[Len(s)]
<1>1. /\ Tail(s) \in Seq(S) /\ Len(Tail(s)) = Len(s) - 1 /\ Head(s) = s[1]
      /\ \A i \in 1..Len(Tail(s)) : Tail(s)[i] = s[i + 1]
  BY HeadTailProperties
<1>2. Len(s) \in Nat /\ Len(Tail(s)) \in Nat BY <1>1, LenProperties
<1>3. ASSUME Tail(s) = <<>> PROVE Head(s) = s[Len(s)]
  <2>1. Len(Tail(s)) = 0 BY <1>3, EmptySeq
  <2>2. PICK m \in Nat : m = Len(s) BY <1>2
  <2>5. Len(Tail(s)) = m - 1 BY <1>1, <2>2, Zenon
  <2>3. m - 1 = 0 BY <2>1, <2>5, Zenon
  <2>6. m = 1 BY <2>3, m \in Nat
  <2>4. Len(s) = 1 BY <2>2, <2>6, Zenon
  <2> QED BY <1>1, <2>4
<1>4. ASSUME Tail(s) # <<>> PROVE Tail(s)[Len(Tail(s))] = s[Len(s)]
  <2>1. Len(Tail(s)) # 0 BY <1>1, <1>4, EmptySeq
  <2>2. Len(Tail(s)) \in 1..Len(Tail(s)) /\ Len(Tail(s)) + 1 = Len(s) BY <1>1, <1>2, <2>1
  <2> QED BY <1>1, <2>2
<1> QED BY <1>1, <1>3, <1>4

LEMMA EffectiveTyped == ASSUME NEW q \in Prefs, NEW d PROVE Colours!Effective(q, d) \in Themes
  BY DEF Prefs, Themes, Colours!Effective

LEMMA SavedPrefTyped ==
  ASSUME pref \in Prefs \cup {None}, NEW works PROVE Colours!SavedPref(works) \in Prefs
  BY DEF Prefs, Colours!SavedPref

LEMMA NextTyped == ASSUME NEW q PROVE Colours!Next3(q) \in Prefs
  BY DEF Prefs, Colours!Next3

LEMMA Asked ==
  ASSUME NEW doc, NEW old, Painted(doc, old), doc = None \/ doc = [f \in DocFields |-> doc[f]],
         NEW theme \in Themes
  PROVE  /\ Painted(Colours!Asks(doc, theme), theme)
         /\ Colours!Asks(doc, theme) = None
              \/ Colours!Asks(doc, theme) = [f \in DocFields |-> Colours!Asks(doc, theme)[f]]
<1>1. CASE doc = None BY <1>1 DEF Painted, Colours!Asks
<1>2. CASE doc # None
  <2>1. PICK new : new = [doc EXCEPT !.asks = Append(@, theme)] OBVIOUS
  <2>2. Colours!Asks(doc, theme) = new BY <1>2, <2>1 DEF Colours!Asks
  <2>3. new = [f \in DocFields |-> new[f]] /\ new.asks = Append(doc.asks, theme)
    BY <1>2, <2>1 DEF DocFields
  <2>4. doc.asks \in Seq(Themes) BY <1>2 DEF Painted
  <2>5. new.asks \in Seq(Themes) /\ new.asks # <<>> /\ new.asks[Len(new.asks)] = theme
    <3>1. PICK t \in Seq(Themes) : t = doc.asks BY <2>4
    <3>2. Append(t, theme) \in Seq(Themes) /\ Append(t, theme) # <<>> /\ Append(t, theme)[Len(Append(t, theme))] = theme
      BY AppendedOne
    <3> QED BY <2>3, <3>1, <3>2
  <2> QED BY <2>2, <2>3, <2>5 DEF Painted
<1> QED BY <1>1, <1>2

LEMMA Applied ==
  ASSUME NEW pg, NEW d, NEW q \in Prefs, NEW now, GoodPage(pg, now)
  PROVE  LET new == Colours!Apply(pg, q, d)
         IN  /\ Shaped(new) /\ Painted(new.doc, new.monaco)
             /\ new.monaco = Colours!Effective(q, d) /\ new.monaco \in Themes
             /\ new.attr = IF q = "system" THEN None ELSE q
             /\ new.stage = pg.stage /\ new.told = pg.told /\ new.pref = pg.pref /\ new.listening = pg.listening
<1>1. PICK theme \in Themes : theme = Colours!Effective(q, d) BY EffectiveTyped
<1>2. PICK doc : doc = Colours!Asks(pg.doc, theme) OBVIOUS
<1>3. Painted(doc, theme) /\ (doc = None \/ doc = [f \in DocFields |-> doc[f]])
  BY <1>2, Asked DEF GoodPage, Shaped
<1>4. PICK new : new = Colours!Apply(pg, q, d) OBVIOUS
<1>5. new = [pg EXCEPT !.attr = IF q = "system" THEN None ELSE q, !.monaco = theme, !.doc = doc]
  BY <1>1, <1>2, <1>4 DEF Colours!Apply
<1>6. pg = [f \in PageFields |-> pg[f]] BY DEF GoodPage, Shaped
<1>7. /\ new = [f \in PageFields |-> new[f]] /\ new.doc = doc /\ new.monaco = theme
      /\ new.attr = IF q = "system" THEN None ELSE q
      /\ new.stage = pg.stage /\ new.told = pg.told /\ new.pref = pg.pref /\ new.listening = pg.listening
  BY <1>5, <1>6 DEF PageFields
<1> QED BY <1>1, <1>3, <1>4, <1>7 DEF Shaped

LEMMA Effected ==
  ASSUME NEW pg, NEW q \in Prefs, GoodPage(pg, dark)
  PROVE  LET new == [Colours!Effect(pg, q) EXCEPT !.stage = "mounted"]
         IN  GoodPage(new, dark)
<1>1. PICK a : a = Colours!Apply(pg, q, dark) OBVIOUS
<1>2. /\ Shaped(a) /\ Painted(a.doc, a.monaco)
      /\ a.monaco = Colours!Effective(q, dark) /\ a.monaco \in Themes
      /\ a.attr = IF q = "system" THEN None ELSE q
      /\ a.told = pg.told
  BY <1>1, Applied
<1>3. PICK new : new = [Colours!Effect(pg, q) EXCEPT !.stage = "mounted"] OBVIOUS
<1>4. new = [[a EXCEPT !.pref = q, !.listening = q = "system"] EXCEPT !.stage = "mounted"]
  BY <1>1, <1>3 DEF Colours!Effect
<1>5. a = [f \in PageFields |-> a[f]] BY <1>2 DEF Shaped
<1>6. /\ new = [f \in PageFields |-> new[f]] /\ new.doc = a.doc /\ new.monaco = a.monaco /\ new.attr = a.attr
      /\ new.told = a.told /\ new.pref = q /\ new.stage = "mounted" /\ new.listening = (q = "system")
  BY <1>4, <1>5 DEF PageFields
<1>7. Shaped(new) BY <1>2, <1>6 DEF Shaped
<1>8. q # "system" => Colours!Effective(q, dark) = q BY DEF Colours!Effective
<1>9. Fits(new, dark) BY <1>2, <1>6, <1>8 DEF Fits, GoodPage
<1> QED BY <1>2, <1>3, <1>6, <1>7, <1>9 DEF GoodPage

LEMMA BlankGood == ASSUME NEW d PROVE GoodPage(Colours!Blank, d)
<1>1. Shaped(Colours!Blank) BY DEF Shaped, PageFields, Colours!Blank
<1>2. Fits(Colours!Blank, d) BY DEF Fits, Colours!Blank, Prefs, Themes
<1>3. Painted(Colours!Blank.doc, Colours!Blank.monaco) BY DEF Painted, Colours!Blank
<1> QED BY <1>1, <1>2, <1>3 DEF GoodPage

\* A step that gives one page another theme or document.
LEMMA Repainted ==
  ASSUME ThemeIInv, NEW p \in Pages, NEW pg, GoodPage(pg, dark), themes' = [themes EXCEPT ![p] = pg],
         UNCHANGED <<dark, pref, chosen, prefLost>>
  PROVE  ThemeIInv'
<1>1. themes' = [x \in Pages |-> themes'[x]] /\ \A x \in Pages : GoodPage(themes'[x], dark)
  BY DEF ThemeIInv
<1>2. Colours!LastChoiceKept' BY DEF ThemeIInv, Colours!LastChoiceKept
<1> QED BY <1>1, <1>2 DEF ThemeIInv

LEMMA ThemeInit == Colours!Init => ThemeIInv
<1> SUFFICES ASSUME Colours!Init PROVE ThemeIInv OBVIOUS
<1>1. \A p \in Pages : GoodPage(themes[p], dark) BY BlankGood DEF Colours!Init
<1> QED BY <1>1 DEF Colours!Init, ThemeIInv, Colours!LastChoiceKept

LEMMA ThemeLoad == ASSUME ThemeIInv, NEW p \in Pages, Colours!Load(p) PROVE ThemeIInv'
<1>1. PICK works \in BOOLEAN :
        themes' = [themes EXCEPT ![p] =
           Colours!Apply([Colours!Blank EXCEPT !.stage = "loaded", !.told = dark], Colours!SavedPref(works), dark)]
  BY DEF Colours!Load
<1>2. PICK b : b = [Colours!Blank EXCEPT !.stage = "loaded", !.told = dark] OBVIOUS
<1>3. Shaped(b) /\ b.stage = "loaded" BY <1>2 DEF Shaped, PageFields, Colours!Blank
<1>4. GoodPage(b, dark)
  BY <1>2, <1>3 DEF GoodPage, Fits, Painted, Colours!Blank, Prefs, Themes, ThemeIInv
<1>5. Colours!SavedPref(works) \in Prefs BY SavedPrefTyped DEF ThemeIInv
<1>6. PICK q \in Prefs : q = Colours!SavedPref(works) BY <1>5
<1>7. PICK a : a = Colours!Apply(b, q, dark) OBVIOUS
<1>8. /\ Shaped(a) /\ Painted(a.doc, a.monaco) /\ a.monaco \in Themes
      /\ a.stage = b.stage /\ a.told = b.told /\ a.pref = b.pref /\ a.listening = b.listening
  BY <1>4, <1>7, Applied
<1>9. GoodPage(a, dark) BY <1>3, <1>4, <1>8 DEF GoodPage, Fits
<1> QED BY <1>1, <1>2, <1>6, <1>7, <1>9, Repainted DEF Colours!Load

LEMMA ThemeRender == ASSUME ThemeIInv, NEW p \in Pages, Colours!Render(p) PROVE ThemeIInv'
<1>1. PICK works \in BOOLEAN :
        themes' = [themes EXCEPT ![p].stage = "rendered", ![p].pref = Colours!SavedPref(works)]
  BY DEF Colours!Render
<1>2. PICK q \in Prefs : q = Colours!SavedPref(works) BY SavedPrefTyped DEF ThemeIInv
<1>3. PICK pg : pg = [themes[p] EXCEPT !.stage = "rendered", !.pref = q] OBVIOUS
<1>4. themes = [x \in Pages |-> themes[x]] /\ GoodPage(themes[p], dark) BY DEF ThemeIInv
<1>5. themes' = [themes EXCEPT ![p] = pg] BY <1>1, <1>2, <1>3, <1>4
<1>6. themes[p] = [f \in PageFields |-> themes[p][f]] BY <1>4 DEF GoodPage, Shaped
<1>7. /\ pg = [f \in PageFields |-> pg[f]] /\ pg.doc = themes[p].doc /\ pg.monaco = themes[p].monaco
      /\ pg.told = themes[p].told /\ pg.pref = q /\ pg.stage = "rendered" /\ pg.listening = themes[p].listening
  BY <1>3, <1>6 DEF PageFields
<1>8. themes[p].stage = "loaded" BY DEF Colours!Render
<1>9. GoodPage(pg, dark) BY <1>4, <1>7, <1>8 DEF GoodPage, Shaped, Fits
<1> QED BY <1>5, <1>9, Repainted DEF Colours!Render

LEMMA ThemeMount == ASSUME ThemeIInv, NEW p \in Pages, Colours!Mount(p) PROVE ThemeIInv'
<1>1. GoodPage(themes[p], dark) BY DEF ThemeIInv
<1>2. PICK q \in Prefs : q = themes[p].pref BY <1>1 DEF GoodPage, Fits
<1>3. PICK pg : pg = [Colours!Effect(themes[p], q) EXCEPT !.stage = "mounted"] OBVIOUS
<1>4. GoodPage(pg, dark) BY <1>1, <1>3, Effected
<1>5. themes' = [themes EXCEPT ![p] = pg] BY <1>2, <1>3 DEF Colours!Mount, Colours!MountsWith, ThemeIInv
<1> QED BY <1>4, <1>5, Repainted DEF Colours!Mount

LEMMA ThemeCycle == ASSUME ThemeIInv, NEW p \in Pages, Colours!Cycle(p) PROVE ThemeIInv'
<1>1. GoodPage(themes[p], dark) /\ themes = [x \in Pages |-> themes[x]] BY DEF ThemeIInv
<1>2. PICK q \in Prefs : q = Colours!Next3(themes[p].pref) BY NextTyped
<1>3. PICK e : e = Colours!Effect(themes[p], q) OBVIOUS
<1>4. PICK pg : pg = [e EXCEPT !.stage = "mounted"] OBVIOUS
<1>5. GoodPage(pg, dark) BY <1>1, <1>3, <1>4, Effected
<1>6. e.stage = "mounted" /\ e = [f \in PageFields |-> e[f]]
  <2>1. PICK a : a = Colours!Apply(themes[p], q, dark) OBVIOUS
  <2>2. Shaped(a) /\ a.stage = themes[p].stage BY <2>1, <1>1, Applied
  <2>3. e = [a EXCEPT !.pref = q, !.listening = q = "system"] BY <1>3, <2>1 DEF Colours!Effect
  <2>4. themes[p].stage = "mounted" BY DEF Colours!Cycle
  <2> QED BY <2>2, <2>3, <2>4 DEF Shaped, PageFields
<1>7. pg = e BY <1>4, <1>6 DEF PageFields
<1>8. themes' = [themes EXCEPT ![p] = pg] /\ chosen' = q /\ dark' = dark
  BY <1>1, <1>2, <1>3, <1>7 DEF Colours!Cycle
<1>9. PICK works \in BOOLEAN : pref' = (IF works THEN q ELSE pref) /\ prefLost' = ~works
  BY <1>2 DEF Colours!Cycle, Colours!Saves
<1>10. themes' = [x \in Pages |-> themes'[x]] /\ \A x \in Pages : GoodPage(themes'[x], dark)
  BY <1>5, <1>8 DEF ThemeIInv
<1>11. Colours!LastChoiceKept' BY <1>8, <1>9 DEF Colours!LastChoiceKept
<1> QED BY <1>8, <1>9, <1>10, <1>11 DEF ThemeIInv

LEMMA ThemeSystem == ThemeIInv /\ Colours!SystemChanges => ThemeIInv'
<1> SUFFICES ASSUME ThemeIInv, Colours!SystemChanges PROVE ThemeIInv' OBVIOUS
<1>1. dark' = ~dark /\ dark \in BOOLEAN /\ UNCHANGED <<themes, pref, chosen, prefLost>>
  BY DEF Colours!SystemChanges, ThemeIInv
<1>2. ASSUME NEW p \in Pages PROVE GoodPage(themes[p], dark')
  <2>1. GoodPage(themes[p], dark) BY DEF ThemeIInv
  <2>2. themes[p].stage = "mounted" => themes[p].told # dark'
    BY <1>1 DEF Colours!SystemChanges
  <2> QED BY <2>1, <2>2 DEF GoodPage, Fits
<1>3. Colours!LastChoiceKept' BY <1>1 DEF ThemeIInv, Colours!LastChoiceKept
<1>4. dark' \in BOOLEAN BY <1>1
<1> QED BY <1>1, <1>2, <1>3, <1>4 DEF ThemeIInv

LEMMA ThemeHear == ASSUME ThemeIInv, NEW p \in Pages, Colours!Hear(p) PROVE ThemeIInv'
<1>1. GoodPage(themes[p], dark) /\ themes = [x \in Pages |-> themes[x]] /\ dark \in BOOLEAN BY DEF ThemeIInv
<1>2. PICK old : old = themes[p] OBVIOUS
<1>3. PICK a : a = IF old.listening THEN Colours!Apply(old, "system", dark) ELSE old OBVIOUS
<1>4. PICK pg : pg = [a EXCEPT !.told = dark] OBVIOUS
<1>5. themes' = [themes EXCEPT ![p] = pg] BY <1>1, <1>2, <1>3, <1>4 DEF Colours!Hear
<1>6. "system" \in Prefs BY DEF Prefs
<1>7. CASE old.listening
  <2>1. a = Colours!Apply(old, "system", dark) BY <1>3, <1>7
  <2>2. /\ Shaped(a) /\ Painted(a.doc, a.monaco) /\ a.monaco \in Themes
        /\ a.monaco = Colours!Effective("system", dark) /\ a.attr = None
        /\ a.stage = old.stage /\ a.told = old.told /\ a.pref = old.pref /\ a.listening = old.listening
    BY <1>1, <1>2, <1>6, <2>1, Applied
  <2>3. old.stage = "mounted" /\ old.pref = "system" BY <1>1, <1>2, <1>7 DEF GoodPage, Fits
  <2>4. a = [f \in PageFields |-> a[f]] BY <2>2 DEF Shaped
  <2>5. /\ pg = [f \in PageFields |-> pg[f]] /\ pg.doc = a.doc /\ pg.monaco = a.monaco /\ pg.attr = a.attr
        /\ pg.told = dark /\ pg.pref = a.pref /\ pg.stage = a.stage /\ pg.listening = a.listening
    BY <1>4, <2>4 DEF PageFields
  <2>6. Fits(pg, dark) BY <1>1, <1>2, <2>2, <2>3, <2>5 DEF Fits, GoodPage
  <2>7. GoodPage(pg, dark) BY <2>2, <2>5, <2>6 DEF GoodPage, Shaped
  <2> QED BY <1>5, <2>7, Repainted DEF Colours!Hear
<1>8. CASE ~old.listening
  <2>1. a = old BY <1>3, <1>8
  <2>2. old = [f \in PageFields |-> old[f]] BY <1>1, <1>2 DEF GoodPage, Shaped
  <2>3. /\ pg = [f \in PageFields |-> pg[f]] /\ pg.doc = old.doc /\ pg.monaco = old.monaco /\ pg.attr = old.attr
        /\ pg.told = dark /\ pg.pref = old.pref /\ pg.stage = old.stage /\ pg.listening = old.listening
    BY <1>4, <2>1, <2>2 DEF PageFields
  <2>4. pg.stage = "mounted" => pg.pref # "system" /\ pg.monaco = pg.pref
    BY <1>1, <1>2, <1>8, <2>3 DEF GoodPage, Fits
  <2>5. Fits(pg, dark) BY <1>1, <1>2, <2>3, <2>4 DEF Fits, GoodPage, Colours!Effective
  <2>6. Shaped(pg) BY <1>1, <1>2, <2>3 DEF GoodPage, Shaped
  <2>7. GoodPage(pg, dark) BY <1>1, <1>2, <2>3, <2>5, <2>6 DEF GoodPage
  <2> QED BY <1>5, <2>7, Repainted DEF Colours!Hear
<1> QED BY <1>7, <1>8

\* A step that gives a page another document.
LEMMA DocChanged ==
  ASSUME ThemeIInv, NEW p \in Pages, NEW doc,
         doc = None \/ doc = [f \in DocFields |-> doc[f]], Painted(doc, themes[p].monaco),
         themes' = [themes EXCEPT ![p].doc = doc], UNCHANGED <<dark, pref, chosen, prefLost>>
  PROVE  ThemeIInv'
<1>1. PICK pg : pg = [themes[p] EXCEPT !.doc = doc] OBVIOUS
<1>2. GoodPage(themes[p], dark) /\ themes = [x \in Pages |-> themes[x]] BY DEF ThemeIInv
<1>3. themes' = [themes EXCEPT ![p] = pg] BY <1>1, <1>2
<1>4. themes[p] = [f \in PageFields |-> themes[p][f]] BY <1>2 DEF GoodPage, Shaped
<1>5. /\ pg = [f \in PageFields |-> pg[f]] /\ pg.doc = doc /\ pg.monaco = themes[p].monaco
      /\ pg.attr = themes[p].attr /\ pg.told = themes[p].told /\ pg.pref = themes[p].pref
      /\ pg.stage = themes[p].stage /\ pg.listening = themes[p].listening
  BY <1>1, <1>4 DEF PageFields
<1>6. GoodPage(pg, dark) BY <1>2, <1>5 DEF GoodPage, Shaped, Fits
<1> QED BY <1>3, <1>6, Repainted

LEMMA ThemeOpenDoc == ASSUME ThemeIInv, NEW p \in Pages, Colours!OpenDoc(p) PROVE ThemeIInv'
<1>1. PICK doc : doc = [painted |-> None, asks |-> <<themes[p].monaco>>] OBVIOUS
<1>2. themes[p].monaco \in Themes BY DEF ThemeIInv, GoodPage, Fits
<1>3. doc = [f \in DocFields |-> doc[f]] /\ doc.asks = <<themes[p].monaco>> BY <1>1 DEF DocFields
<1>4. Painted(doc, themes[p].monaco) BY <1>2, <1>3, OnlyOne DEF Painted
<1> QED BY <1>1, <1>3, <1>4, DocChanged DEF Colours!OpenDoc

LEMMA ThemeCloseDoc == ASSUME ThemeIInv, NEW p \in Pages, Colours!CloseDoc(p) PROVE ThemeIInv'
<1>1. Painted(None, themes[p].monaco) BY DEF Painted
<1> QED BY <1>1, DocChanged DEF Colours!CloseDoc

LEMMA ThemePaint == ASSUME ThemeIInv, NEW p \in Pages, Colours!Paint(p) PROVE ThemeIInv'
<1>1. PICK old : old = themes[p].doc OBVIOUS
<1>2. PICK theme \in {Head(old.asks), themes[p].monaco} :
        themes' = [themes EXCEPT ![p].doc = [painted |-> theme, asks |-> Tail(@.asks)]]
  BY <1>1 DEF Colours!Paint
<1>3. PICK doc : doc = [painted |-> theme, asks |-> Tail(old.asks)] OBVIOUS
<1>4. themes' = [themes EXCEPT ![p].doc = doc] BY <1>1, <1>2, <1>3 DEF ThemeIInv
<1>5. doc = [f \in DocFields |-> doc[f]] /\ doc.asks = Tail(old.asks) /\ doc.painted = theme BY <1>3 DEF DocFields
<1>6. PICK s \in Seq(Themes) : s = old.asks /\ s # <<>> /\ s[Len(s)] = themes[p].monaco
  BY <1>1 DEF Colours!Paint, ThemeIInv, GoodPage, Painted
<1>7. Tail(s) \in Seq(Themes) BY <1>6, TailLast
<1>8. ASSUME Tail(s) = <<>> PROVE theme = themes[p].monaco BY <1>2, <1>6, <1>8, TailLast
<1>9. ASSUME Tail(s) # <<>> PROVE Tail(s)[Len(Tail(s))] = themes[p].monaco BY <1>6, <1>9, TailLast
<1>10. Painted(doc, themes[p].monaco) BY <1>5, <1>6, <1>7, <1>8, <1>9 DEF Painted
<1> QED BY <1>4, <1>5, <1>10, DocChanged DEF Colours!Paint

LEMMA ThemeStep == ThemeIInv /\ [Colours!Next]_(Colours!vars) => ThemeIInv'
<1> SUFFICES ASSUME ThemeIInv, [Colours!Next]_(Colours!vars) PROVE ThemeIInv' OBVIOUS
<1>1. CASE UNCHANGED Colours!vars
  BY <1>1 DEF ThemeIInv, Colours!LastChoiceKept, Colours!vars
<1> QED BY <1>1, ThemeSystem, ThemeLoad, ThemeRender, ThemeMount, ThemeCycle, ThemeHear, ThemeOpenDoc,
           ThemeCloseDoc, ThemePaint DEF Colours!Next

LEMMA ThemeImplies == ThemeIInv => ThemeInv
<1> SUFFICES ASSUME ThemeIInv PROVE ThemeInv OBVIOUS
<1>1. \A p \in Pages : GoodPage(themes[p], dark) BY DEF ThemeIInv
<1>2. Colours!ThemeTypeOK BY <1>1 DEF ThemeIInv, GoodPage, Fits, Prefs, Themes, Colours!ThemeTypeOK, Colours!Prefs
<1>3. Colours!ThemeFits BY <1>1 DEF GoodPage, Fits, Colours!ThemeFits
<1>4. Colours!BlocksFit BY <1>1 DEF GoodPage, Painted, Colours!BlocksFit
<1> QED BY <1>2, <1>3, <1>4 DEF ThemeIInv, ThemeInv, Colours!ThemeInv

\* For any pages of one browser: page, editor and code blocks agree with the
\* preference and the system, and what is saved is the last choice in any page
\* (theme.ts, Markdown.tsx).
THEOREM ThemeIsKept == Colours!Spec => []ThemeInv
<1>1. Colours!Spec => []ThemeIInv BY ThemeInit, ThemeStep, PTL DEF Colours!Spec
<1> QED BY <1>1, ThemeImplies, PTL

-----------------------------------------------------------------------------
(* The routes, views and doors. *)

\* A click is answered once: one that waits has not been.
Waiting == IF pending = None THEN 0 ELSE 1
ClicksCount == clicks \in Nat /\ answers \in Nat /\ answers + Waiting <= clicks

\* Doors are on the page of their exercise and show its scenes.
DoorsFit ==
  /\ at = Home => doors = {}
  /\ \A d \in doors : open[d] # None => open[d] \in Doors[at][d]
  /\ open = [d \in doors |-> open[d]]

SiteIInv ==
  /\ Routes!SiteTypeOK /\ Routes!HeardAreMounted /\ Routes!LoadingIsServed
  /\ DoorsFit /\ ClicksCount
  /\ fetched = [e \in Exercises |-> fetched[e]]

LEMMA SiteImplies == SiteIInv => SiteInv
  BY DEF SiteIInv, SiteInv, Routes!SiteInv, DoorsFit, ClicksCount, Waiting, Routes!OneDoorPerClick

LEMMA SiteInit == Routes!Init => SiteIInv
<1> SUFFICES ASSUME Routes!Init PROVE SiteIInv OBVIOUS
<1>1. open = [d \in {} |-> None] /\ doors = {} BY DEF Routes!Init, Routes!Empty
<1>2. Routes!SiteTypeOK BY <1>1 DEF Routes!Init, Routes!SiteTypeOK
<1>3. ClicksCount BY DEF Routes!Init, ClicksCount, Waiting
<1> QED BY <1>1, <1>2, <1>3 DEF Routes!Init, SiteIInv, DoorsFit, Routes!HeardAreMounted, Routes!LoadingIsServed

\* Of things that are all one there is one at most.
LEMMA AtMostOne ==
  ASSUME NEW S, \A x, y \in S : x = y
  PROVE  Cardinality(S) \in {0, 1}
<1>1. CASE S = {} BY <1>1, FS_EmptySet
<1>2. CASE S # {}
  <2>1. PICK x : x \in S BY <1>2
  <2>2. S = {x} BY <2>1
  <2> QED BY <2>2, FS_Singleton
<1> QED BY <1>1, <1>2

\* The module counts as this one does.
LEMMA SameCount == ASSUME NEW S PROVE Routes!Cardinality(S) = Cardinality(S)
  BY DEF Routes!Cardinality, Cardinality

LEMMA SiteNavigate == SiteIInv /\ Routes!Navigate => SiteIInv'
<1> SUFFICES ASSUME SiteIInv, Routes!Navigate PROVE SiteIInv' OBVIOUS
<1>1. PICK e \in Exercises \cup {Home}, t \in {"problem", "solution"} :
        /\ e = Home => t = "problem"
        /\ Routes!GoTo(e, t) /\ Routes!LeaveDoors
        /\ UNCHANGED <<pending, fails, clicks, answers>>
  BY DEF Routes!Navigate
<1>2. at' = e /\ tab' = t /\ doors' = {} /\ listeners' = {} /\ open' = [d \in {} |-> None]
  BY <1>1 DEF Routes!GoTo, Routes!LeaveDoors, Routes!Empty
<1>3. ClicksCount' BY <1>1 DEF SiteIInv, ClicksCount, Waiting
<1>4. DoorsFit' BY <1>2 DEF DoorsFit
<1>5. CASE e = at
  <2>1. UNCHANGED <<fetched, view, docSpec, codeSpec>> BY <1>1, <1>5 DEF Routes!GoTo, Routes!loads
  <2> QED BY <1>1, <1>2, <1>3, <1>4, <1>5, <2>1
          DEF SiteIInv, Routes!SiteTypeOK, Routes!HeardAreMounted, Routes!LoadingIsServed
<1>6. CASE e # at /\ e = Home
  <2>1. fetched' = fetched /\ view' = "none" /\ docSpec' = FALSE /\ codeSpec' = FALSE
    BY <1>1, <1>6 DEF Routes!GoTo
  <2> QED BY <1>1, <1>2, <1>3, <1>4, <1>6, <2>1
          DEF SiteIInv, Routes!SiteTypeOK, Routes!HeardAreMounted, Routes!LoadingIsServed
<1>7. CASE e # at /\ e # Home
  <2>1. /\ fetched' = [fetched EXCEPT ![e] = IF @ = None THEN "pending" ELSE @]
        /\ view' = "loading" /\ docSpec' = FALSE /\ codeSpec' = FALSE
    BY <1>1, <1>7 DEF Routes!GoTo, Routes!FetchJSON
  <2>2. /\ fetched' = [x \in Exercises |-> fetched'[x]]
        /\ \A x \in Exercises : fetched'[x] \in {None, "pending", "done"}
        /\ fetched'[e] \in {"pending", "done"}
    BY <1>7, <2>1 DEF SiteIInv, Routes!SiteTypeOK
  <2> QED BY <1>1, <1>2, <1>3, <1>4, <1>7, <2>1, <2>2
          DEF SiteIInv, Routes!SiteTypeOK, Routes!HeardAreMounted, Routes!LoadingIsServed
<1> QED BY <1>5, <1>6, <1>7

LEMMA SiteSettles == ASSUME SiteIInv, NEW e \in Exercises, Routes!Settles(e) PROVE SiteIInv'
<1>1. /\ fetched[e] = "pending"
      /\ UNCHANGED <<at, tab, docSpec, codeSpec, doors, listeners, pending, open, clicks, asked, answers>>
  BY DEF Routes!Settles, Routes!route, Routes!door
<1>2. PICK now \in {"done", "error"} :
        /\ fetched' = [fetched EXCEPT ![e] = IF now = "done" THEN "done" ELSE None]
        /\ view' = IF at = e /\ view = "loading" THEN (IF now = "done" THEN "ready" ELSE "error") ELSE view
  BY DEF Routes!Settles, Routes!Live, Routes!FetchFails
<1>3. /\ fetched' = [x \in Exercises |-> fetched'[x]]
      /\ \A x \in Exercises : fetched'[x] \in {None, "pending", "done"}
      /\ \A x \in Exercises \ {e} : fetched'[x] = fetched[x]
      /\ now = "done" => fetched'[e] = "done"
  BY <1>2 DEF SiteIInv, Routes!SiteTypeOK
<1>4. view' \in {"none", "loading", "ready", "error"} /\ (view' = "none" <=> at = Home)
  BY <1>2 DEF SiteIInv, Routes!SiteTypeOK
<1>5. Routes!LoadingIsServed'
  <2>1. ASSUME view' = "loading" PROVE fetched'[at'] \in {"pending", "done"}
    <3>1. view = "loading" /\ at # e BY <1>2, <2>1
    <3>2. at \in Exercises BY <3>1 DEF SiteIInv, Routes!SiteTypeOK
    <3> QED BY <1>1, <1>3, <3>1, <3>2 DEF SiteIInv, Routes!LoadingIsServed
  <2>2. ASSUME view' = "ready" PROVE fetched'[at'] = "done"
    <3>1. CASE view = "ready"
      <4>1. fetched[at] = "done" /\ at \in Exercises BY <3>1 DEF SiteIInv, Routes!LoadingIsServed, Routes!SiteTypeOK
      <4> QED BY <1>1, <1>3, <4>1
    <3>2. CASE view # "ready"
      <4>1. at = e /\ now = "done" BY <1>2, <2>2, <3>2
      <4> QED BY <1>1, <1>3, <4>1
    <3> QED BY <3>1, <3>2
  <2> QED BY <2>1, <2>2 DEF Routes!LoadingIsServed
<1>6. Routes!SiteTypeOK' BY <1>1, <1>3, <1>4 DEF SiteIInv, Routes!SiteTypeOK
<1>7. Routes!HeardAreMounted' /\ DoorsFit' /\ ClicksCount'
  BY <1>1 DEF SiteIInv, Routes!HeardAreMounted, DoorsFit, ClicksCount, Waiting
<1> QED BY <1>3, <1>5, <1>6, <1>7 DEF SiteIInv

LEMMA SiteArrives == SiteIInv /\ Routes!Arrives => SiteIInv'
  BY DEF SiteIInv, Routes!Arrives, Routes!SiteTypeOK, Routes!HeardAreMounted, Routes!LoadingIsServed, DoorsFit,
     ClicksCount, Waiting, Routes!route, Routes!door, Routes!history

LEMMA SiteSpec == SiteIInv /\ Routes!SpecComes => SiteIInv'
  BY DEF SiteIInv, Routes!SpecComes, Routes!SiteTypeOK, Routes!HeardAreMounted, Routes!LoadingIsServed, DoorsFit,
     ClicksCount, Waiting, Routes!route, Routes!door, Routes!history

LEMMA SiteMount == SiteIInv /\ Routes!MountDoors => SiteIInv'
<1> SUFFICES ASSUME SiteIInv, Routes!MountDoors PROVE SiteIInv' OBVIOUS
<1>1. /\ view = "ready" /\ tab = "problem" /\ doors' = DOMAIN Doors[at]
      /\ open' = [d \in DOMAIN Doors[at] |-> None]
      /\ UNCHANGED <<at, tab, fetched, view, docSpec, codeSpec, listeners, pending, clicks, answers>>
  BY DEF Routes!MountDoors, Routes!DoorsOf, Routes!route, Routes!loads, Routes!history
<1>2. at # Home BY <1>1 DEF SiteIInv, Routes!SiteTypeOK
<1>3. Routes!SiteTypeOK' BY <1>1 DEF SiteIInv, Routes!SiteTypeOK, Routes!DoorsOf
<1>4. listeners \subseteq DOMAIN Doors[at]
  BY <1>2 DEF SiteIInv, Routes!HeardAreMounted, Routes!SiteTypeOK, Routes!DoorsOf
<1>5. DoorsFit' BY <1>1, <1>2 DEF DoorsFit
<1> QED BY <1>1, <1>3, <1>4, <1>5
        DEF SiteIInv, Routes!HeardAreMounted, Routes!LoadingIsServed, ClicksCount, Waiting

\* An intent opens one door at most, with a scene of it.
LEMMA OpenedOne ==
  ASSUME SiteIInv, NEW e, NEW heard, Routes!Opened(e, heard), UNCHANGED <<at, doors>>,
         \A c, d \in Routes!Answering(e, heard) : c = d
  PROVE  /\ open' = [d \in doors |-> open'[d]] /\ DOMAIN open' = doors
         /\ \A d \in doors : open'[d] # None => open'[d] \in Doors[at][d]
         /\ answers' \in Nat /\ answers' \in {answers, answers + 1}
<1> DEFINE S == Routes!Answering(e, heard)
<1>0. \A c, d \in S : c = d OBVIOUS
<1>1. Cardinality(Routes!Answering(e, heard)) \in {0, 1}
  <2> HIDE DEF S
  <2>1. Cardinality(S) \in {0, 1} BY <1>0, AtMostOne
  <2> QED BY <2>1 DEF S
<1> HIDE DEF S
<1>2. answers' = answers + Cardinality(Routes!Answering(e, heard))
  <2>1. answers' = answers + Routes!Cardinality(Routes!Answering(e, heard)) BY DEF Routes!Opened
  <2> QED BY <2>1, SameCount
<1>3. answers \in Nat BY DEF SiteIInv, ClicksCount
<1>4. answers' \in Nat /\ answers' \in {answers, answers + 1} BY <1>1, <1>2, <1>3
<1>5. DOMAIN open = doors BY DEF SiteIInv, Routes!SiteTypeOK
<1>6. open' = [d \in doors |-> IF d \in Routes!Answering(e, heard) THEN Today[e] ELSE open[d]]
  BY <1>5 DEF Routes!Opened
<1>7. \A d \in Routes!Answering(e, heard) : Today[e] \in Doors[at][d] BY DEF Routes!Answering
<1>8. \A d \in doors : open'[d] # None => open'[d] \in Doors[at][d]
  BY <1>6, <1>7 DEF SiteIInv, DoorsFit
<1> QED BY <1>4, <1>6, <1>8

LEMMA SiteSubscribe == SiteIInv /\ Routes!Subscribe => SiteIInv'
<1> SUFFICES ASSUME SiteIInv, Routes!Subscribe PROVE SiteIInv' OBVIOUS
<1>1. listeners' = doors /\ UNCHANGED <<at, tab, fetched, view, docSpec, codeSpec, doors, clicks>>
  BY DEF Routes!Subscribe, Routes!route, Routes!loads
<1>2. CASE pending = None
  <2>1. UNCHANGED <<pending, open, answers>> BY <1>2 DEF Routes!Subscribe
  <2> QED BY <1>1, <2>1 DEF SiteIInv, Routes!SiteTypeOK, Routes!HeardAreMounted, Routes!LoadingIsServed, DoorsFit,
             ClicksCount, Waiting
<1>3. CASE pending # None
  <2>1. pending' = None /\ Routes!Opened(pending, {Routes!First})
    BY <1>3 DEF Routes!Subscribe, Routes!TakePending
  <2>2. \A c, d \in Routes!Answering(pending, {Routes!First}) : c = d BY DEF Routes!Answering
  <2>3. /\ open' = [d \in doors |-> open'[d]] /\ DOMAIN open' = doors
        /\ \A d \in doors : open'[d] # None => open'[d] \in Doors[at][d]
        /\ answers' \in Nat /\ answers' \in {answers, answers + 1}
    BY <1>1, <2>1, <2>2, OpenedOne
  <2>4. ClicksCount' BY <1>1, <1>3, <2>1, <2>3 DEF SiteIInv, ClicksCount, Waiting
  <2>5. DoorsFit' BY <1>1, <2>3 DEF SiteIInv, DoorsFit
  <2> QED BY <1>1, <2>1, <2>3, <2>4, <2>5
          DEF SiteIInv, Routes!SiteTypeOK, Routes!HeardAreMounted, Routes!LoadingIsServed
<1> QED BY <1>2, <1>3

LEMMA SiteSeeWhy == SiteIInv /\ Routes!SeeWhy => SiteIInv'
<1> SUFFICES ASSUME SiteIInv, Routes!SeeWhy PROVE SiteIInv' OBVIOUS
<1>1. /\ view = "ready" /\ clicks' = clicks + 1 /\ tab' = "problem"
      /\ UNCHANGED <<at, fetched, view, docSpec, codeSpec, doors, listeners>>
  BY DEF Routes!SeeWhy, Routes!loads
<1>2. at \in Exercises /\ at # Home BY <1>1 DEF SiteIInv, Routes!SiteTypeOK
<1>3. CASE listeners = {}
  <2>1. pending' = at /\ UNCHANGED <<open, answers>> BY <1>3 DEF Routes!SeeWhy, Routes!Ask
  <2>2. ClicksCount' BY <1>1, <2>1 DEF SiteIInv, ClicksCount, Waiting
  <2> QED BY <1>1, <1>2, <2>1, <2>2
          DEF SiteIInv, Routes!SiteTypeOK, Routes!HeardAreMounted, Routes!LoadingIsServed, DoorsFit
<1>4. CASE listeners # {}
  <2>1. Routes!Opened(at, listeners) /\ pending' = pending BY <1>4 DEF Routes!SeeWhy, Routes!Ask
  <2>2. \A c, d \in Routes!Answering(at, listeners) : c = d
    <3>1. SUFFICES ASSUME NEW c \in listeners, NEW d \in listeners,
                          Today[at] \in Doors[at][c], Today[at] \in Doors[at][d]
                   PROVE  c = d
      BY DEF Routes!Answering
    <3>2. c \in DOMAIN Doors[at] /\ d \in DOMAIN Doors[at]
      BY <1>2 DEF SiteIInv, Routes!HeardAreMounted, Routes!SiteTypeOK, Routes!DoorsOf
    <3>3. Doors[at][c] \cap Doors[at][d] # {} BY <3>1
    <3> QED BY <1>2, <3>2, <3>3, PageAssumption
  <2>3. /\ open' = [d \in doors |-> open'[d]] /\ DOMAIN open' = doors
        /\ \A d \in doors : open'[d] # None => open'[d] \in Doors[at][d]
        /\ answers' \in Nat /\ answers' \in {answers, answers + 1}
    BY <1>1, <2>1, <2>2, OpenedOne
  <2>4. ClicksCount' BY <1>1, <2>1, <2>3 DEF SiteIInv, ClicksCount, Waiting
  <2>5. DoorsFit' BY <1>1, <2>3 DEF SiteIInv, DoorsFit
  <2> QED BY <1>1, <2>1, <2>3, <2>4, <2>5
          DEF SiteIInv, Routes!SiteTypeOK, Routes!HeardAreMounted, Routes!LoadingIsServed
<1> QED BY <1>3, <1>4

LEMMA SiteChip == SiteIInv /\ Routes!Chip => SiteIInv'
<1> SUFFICES ASSUME SiteIInv, Routes!Chip PROVE SiteIInv' OBVIOUS
<1>1. PICK d \in doors : \E s \in Doors[at][d] \cup {None} :
        /\ open' = [open EXCEPT ![d] = s]
        /\ UNCHANGED <<at, tab, fetched, view, docSpec, codeSpec, doors, listeners, pending, clicks, answers>>
  BY DEF Routes!Chip, Routes!route, Routes!loads, Routes!history
<1> PICK s \in Doors[at][d] \cup {None} : open' = [open EXCEPT ![d] = s] BY <1>1
<1>2. DoorsFit' BY <1>1 DEF SiteIInv, DoorsFit
<1>3. DOMAIN open' = doors BY <1>1 DEF SiteIInv, Routes!SiteTypeOK
<1> QED BY <1>1, <1>2, <1>3
        DEF SiteIInv, Routes!SiteTypeOK, Routes!HeardAreMounted, Routes!LoadingIsServed, ClicksCount, Waiting

LEMMA SiteStep == SiteIInv /\ [Routes!Next]_(Routes!vars) => SiteIInv'
<1> SUFFICES ASSUME SiteIInv, [Routes!Next]_(Routes!vars) PROVE SiteIInv' OBVIOUS
<1>1. CASE UNCHANGED Routes!vars
  BY <1>1 DEF SiteIInv, Routes!SiteTypeOK, Routes!HeardAreMounted, Routes!LoadingIsServed, DoorsFit, ClicksCount,
     Waiting, Routes!vars, Routes!route, Routes!loads, Routes!door, Routes!history
<1> QED BY <1>1, SiteNavigate, SiteSettles, SiteArrives, SiteSpec, SiteMount, SiteSubscribe, SiteSeeWhy, SiteChip
        DEF Routes!Next, Routes!Page, Routes!Visitor

\* For any exercises with any doors that share no scene: a view that loads is served,
\* only doors on the page are heard, and a click opens one door at most, of its own
\* exercise (data.ts, doorIntent.ts).
THEOREM SiteIsKept == Routes!Spec => []SiteInv
<1>1. Routes!Spec => []SiteIInv BY SiteInit, SiteStep, PTL DEF Routes!Spec
<1> QED BY <1>1, SiteImplies, PTL

-----------------------------------------------------------------------------
\* Induction over the naturals, with a set.
LEMMA NatSetInduction ==
  ASSUME NEW S, 0 \in S, \A n \in Nat : n \in S => n + 1 \in S
  PROVE  Nat \subseteq S
<1> DEFINE R == OpToRel(<, Nat)
           T == Nat \ S
<1>1. IsWellFoundedOn(R, Nat)
  BY NatLessThanWellFounded
<1>2. \A x, y \in Nat : x < y => <<x, y>> \in R
  BY DEF OpToRel
<1> HIDE DEF R
<1>3. SUFFICES ASSUME T # {} PROVE FALSE
  OBVIOUS
<1>4. PICK x \in T : \A y \in T : <<y, x>> \notin R
  <2>1. T \subseteq Nat
    OBVIOUS
  <2> HIDE DEF T
  <2> QED BY <1>1, <1>3, <2>1, WFMin
<1>5. x \in Nat /\ x # 0 /\ x \notin S
  OBVIOUS
<1>6. x - 1 \in Nat /\ x - 1 < x /\ x = (x - 1) + 1
  BY <1>5
<1>7. x - 1 \in S
  BY <1>2, <1>4, <1>5, <1>6
<1> QED BY <1>5, <1>6, <1>7

\* A function on 0..n that begins with base and goes on by step, and that there
\* is one: this is how a recursive function on an interval is shown to exist.
Continues(f, n, base, step) == f[0] = base /\ \A i \in 1..n : f[i] = step[<<i, f[i - 1]>>]
HasValues(n, S, base, step) == \E f \in [0..n -> S] : Continues(f, n, base, step)

LEMMA IntervalRecursion ==
  ASSUME NEW n \in Nat, NEW S, NEW base \in S, NEW step \in [(1..n) \X S -> S]
  PROVE  HasValues(n, S, base, step)
<1> USE DEF HasValues, Continues
<1> DEFINE Good(m, f) == f[0] = base /\ \A i \in 1..m : f[i] = step[<<i, f[i - 1]>>]
           P == {m \in Nat : m <= n => \E f \in [0..m -> S] : Good(m, f)}
<1>1. 0 \in P
  <2>1. [i \in 0..0 |-> base] \in [0..0 -> S] /\ Good(0, [i \in 0..0 |-> base])
    OBVIOUS
  <2> QED BY <2>1
<1>2. ASSUME NEW m \in Nat, m \in P
      PROVE  m + 1 \in P
  <2> SUFFICES ASSUME m + 1 <= n PROVE \E f \in [0..m + 1 -> S] : Good(m + 1, f)
    OBVIOUS
  <2>1. PICK f \in [0..m -> S] : Good(m, f)
    BY <1>2
  <2> DEFINE g == [i \in 0..m + 1 |-> IF i = m + 1 THEN step[<<m + 1, f[m]>>] ELSE f[i]]
  <2>2. f[m] \in S /\ m + 1 \in 1..n
    OBVIOUS
  <2>3. <<m + 1, f[m]>> \in (1..n) \X S
    BY <2>2
  <2>4. step[<<m + 1, f[m]>>] \in S
    BY <2>3
  <2>5. g \in [0..m + 1 -> S] /\ g[0] = base
    BY <2>1, <2>4
  <2>6. ASSUME NEW i \in 1..m + 1
        PROVE  g[i] = step[<<i, g[i - 1]>>]
    <3>1. CASE i = m + 1
      <4>1. i - 1 = m /\ m \in 0..m + 1 /\ m # m + 1 /\ i \in 0..m + 1
        BY <3>1
      <4>2. g[m] = f[m]
        BY <4>1
      <4>3. g[i] = step[<<m + 1, f[m]>>]
        BY <3>1, <4>1
      <4> QED BY <3>1, <4>1, <4>2, <4>3
    <3>2. CASE i \in 1..m
      BY <3>2, <2>1
    <3> QED BY <3>1, <3>2
  <2> HIDE DEF g
  <2> QED BY <2>5, <2>6
<1>3. Nat \subseteq P
  <2> HIDE DEF P
  <2> QED BY <1>1, <1>2, NatSetInduction
<1> QED BY <1>3

-----------------------------------------------------------------------------
(* The console: what is shown of a sequence of lines.                      *)

Kinds == {"fail", "pass", "dim", "err", "plain", "cmd"}
PageWords == [say : {"greeting", "command", "end", "hint"}, test : {None}]
Texts == Seq(Output!Words)
Marks == ({0} \X PageWords) \cup ({1, 2} \X (Output!Words \cup {NL}))

OpenLine == [text : Texts, fd : {1, 2}]
Line == [text : Seq(Output!Words \cup PageWords), fd : {0, 1, 2}]
ShownLine == [text : Seq(Output!Words \cup PageWords), kind : Kinds, why : BOOLEAN]

\* The words, the lines and None are different things.
LEMMA WordIs ==
  /\ \A w \in Output!Words : /\ w.say \in {"run", "pass", "fail", "text"}
                             /\ w.say # "text" => w.test \in Tests
                             /\ w.say = "text" => w.test = None
  /\ NL \notin Output!Words
  /\ \A t \in Tests : t # None
BY ConsoleAssumption DEF Output!Words

LEMMA LineIsOpen == ASSUME NEW l \in OpenLine PROVE l # None /\ l \in Line
<1> DEFINE W == [say : {"run", "pass", "fail", "text"}, test : Tests \cup {None}]
<1>1. Output!Words \subseteq W BY DEF Output!Words
<1>2. l.text \in Seq(Output!Words) /\ l.fd \in {1, 2} /\ l = [text |-> l.text, fd |-> l.fd] BY DEF OpenLine, Texts
<1>3. l.text \in Seq(W) /\ l.text \in Seq(Output!Words \cup PageWords)
  <2> HIDE DEF W
  <2> QED BY <1>1, <1>2, SeqMonotonic
<1>4. l \in [text : Seq(W), fd : {1, 2}]
  <2> HIDE DEF W
  <2> QED BY <1>2, <1>3
<1>5. l # None BY <1>4, ConsoleAssumption
<1>6. l \in Line
  <2> HIDE DEF W
  <2> QED BY <1>2, <1>3 DEF Line
<1> QED BY <1>5, <1>6

AppendedTo(a, s, x) ==
  /\ Len(a) = (IF Len(s) = MaxLines THEN MaxLines ELSE Len(s) + 1)
  /\ Len(a) \in Nat \ {0} /\ a[Len(a)] = x
  /\ \A i \in 1..(Len(a) - 1) : a[i] = s[i + (Len(s) + 1 - Len(a))]

\* What is appended is last, and the first leaves when there are too many.
LEMMA AppendedIs ==
  ASSUME NEW S, NEW s \in Seq(S), NEW x \in S, Len(s) <= MaxLines, NEW a, a = Output!Appended(s, x)
  PROVE  a \in Seq(S) /\ AppendedTo(a, s, x)
<1>0. PICK n \in Nat : n = Len(s) BY LenProperties
<1>1. PICK b : n = Len(s) /\ b = Append(s, x) BY <1>0
<1>2. b \in Seq(S) /\ Len(b) = n + 1 /\ b[n + 1] = x /\ \A i \in 1..n : b[i] = s[i] BY <1>1, AppendProperties
<1>3. PICK m \in 1..2 : m = IF n + 1 > MaxLines THEN 2 ELSE 1 OBVIOUS
<1>4. a = SubSeq(b, m, n + 1) BY <1>1, <1>2, <1>3 DEF Output!Appended
<1>5. MaxLines \in Nat \ {0} /\ n <= MaxLines BY <1>1, ConsoleAssumption
<1>6. \A i \in m..(n + 1) : b[i] \in S BY <1>2, ElementOfSeq
<1>7. /\ a \in Seq(S) /\ Len(a) = IF m <= n + 1 THEN n + 1 - m + 1 ELSE 0
      /\ \A i \in 1..(n + 1 - m + 1) : a[i] = b[m + i - 1]
  BY <1>4, <1>6, SubSeqProperties
<1>8. Len(a) = n + 2 - m /\ Len(a) \in Nat \ {0} /\ Len(a) = IF n = MaxLines THEN MaxLines ELSE n + 1
  BY <1>3, <1>5, <1>7
<1>9. a[Len(a)] = x BY <1>2, <1>3, <1>7, <1>8
<1>10. ASSUME NEW i \in 1..(Len(a) - 1) PROVE a[i] = s[i + (n + 1 - Len(a))]
  <2>1. i \in 1..(n + 1 - m + 1) /\ m + i - 1 \in 1..n /\ m + i - 1 = i + (n + 1 - Len(a)) BY <1>3, <1>8
  <2> QED BY <1>2, <1>7, <2>1
<1> QED BY <1>1, <1>7, <1>8, <1>9, <1>10 DEF AppendedTo

\* Only the last line is rendered anew.
LEMMA RenderedIs ==
  ASSUME NEW s \in Seq(ShownLine), Len(s) # 0, NEW text, NEW kind, NEW why,
         [text |-> text, kind |-> kind, why |-> why] \in ShownLine, NEW a, a = Output!Rendered(s, text, kind, why)
  PROVE  /\ a \in Seq(ShownLine) /\ Len(a) = Len(s)
         /\ a[Len(a)] = [text |-> text, kind |-> kind, why |-> why]
         /\ \A i \in 1..(Len(a) - 1) : a[i] = s[i]
<1>1. PICK e \in ShownLine : e = [text |-> text, kind |-> kind, why |-> why] OBVIOUS
<1>2. PICK n \in Nat : n = Len(s) BY LenProperties
<1>3. n \in 1..Len(s) BY <1>2
<1>4. a = [s EXCEPT ![n] = e] BY <1>1, <1>2 DEF Output!Rendered
<1>5. a \in Seq(ShownLine) /\ Len(a) = n /\ \A j \in 1..n : a[j] = IF j = n THEN e ELSE s[j]
  BY <1>2, <1>3, <1>4, ExceptSeq
<1> QED BY <1>1, <1>2, <1>3, <1>5

-----------------------------------------------------------------------------
\* The lines shown are the last of all, with their texts and kinds; the last one
\* of them may not have ended.
Fitting(sl, l, going) == sl.text = l.text /\ (l.fd # 0 /\ ~going => sl.kind = Output!Classify(l.text, l.fd))
Shows(shownLines, all, going) ==
  /\ Len(shownLines) = IF Len(all) > MaxLines THEN MaxLines ELSE Len(all)
  /\ \A i \in 1..Len(shownLines) :
       Fitting(shownLines[i], all[i + (Len(all) - Len(shownLines))], going /\ i = Len(shownLines))

LEMMA ShowsMore ==
  ASSUME NEW s \in Seq(ShownLine), NEW all \in Seq(Line), Shows(s, all, FALSE), NEW x \in ShownLine, NEW l \in Line,
         NEW going \in BOOLEAN, Fitting(x, l, going)
  PROVE  Shows(Output!Appended(s, x), Append(all, l), going)
<1>1. PICK n \in Nat, k \in Nat, M \in Nat \ {0} : n = Len(s) /\ k = Len(all) /\ M = MaxLines
  BY LenProperties, ConsoleAssumption
<1>2. n = (IF k > M THEN M ELSE k) /\ \A i \in 1..n : Fitting(s[i], all[i + (k - n)], FALSE)
  BY <1>1 DEF Shows, Fitting
<1>3. PICK a, b : a = Output!Appended(s, x) /\ b = Append(all, l) OBVIOUS
<1>10. Len(s) <= MaxLines BY <1>1, <1>2
<1>11. AppendedTo(a, s, x) BY <1>3, <1>10, AppendedIs
<1>4. PICK m \in Nat \ {0} : m = Len(a) /\ m = (IF n = M THEN M ELSE n + 1) /\ a[m] = x
                             /\ \A i \in 1..(m - 1) : a[i] = s[i + (n + 1 - m)]
  BY <1>1, <1>11 DEF AppendedTo
<1>5. Len(b) = k + 1 /\ b[k + 1] = l /\ \A i \in 1..k : b[i] = all[i] BY <1>1, <1>3, AppendProperties
<1>6. m = IF k + 1 > M THEN M ELSE k + 1 BY <1>2, <1>4
<1>7. ASSUME NEW i \in 1..m PROVE Fitting(a[i], b[i + (k + 1 - m)], going /\ i = m)
  <2>1. CASE i = m
    <3>1. i + (k + 1 - m) = k + 1 BY <2>1
    <3>2. (going /\ i = m) = going BY <2>1
    <3> QED BY <1>4, <1>5, <2>1, <3>1, <3>2
  <2>2. CASE i # m
    <3>1. PICK j \in Int : j = i + (n + 1 - m) OBVIOUS
    <3>2. j \in 1..n /\ j + (k - n) = i + (k + 1 - m) /\ i + (k + 1 - m) \in 1..k /\ i \in 1..(m - 1)
      BY <1>2, <1>4, <1>6, <2>2, <3>1
    <3>3. a[i] = s[j] /\ b[i + (k + 1 - m)] = all[j + (k - n)] BY <1>4, <1>5, <3>1, <3>2
    <3>4. Fitting(s[j], all[j + (k - n)], FALSE) BY <1>2, <3>2
    <3>5. (going /\ i = m) = FALSE BY <2>2
    <3> QED BY <3>3, <3>4, <3>5
  <2> QED BY <2>1, <2>2
<1>8. Len(a) = IF Len(b) > MaxLines THEN MaxLines ELSE Len(b) BY <1>1, <1>4, <1>5, <1>6
<1>9. ASSUME NEW i \in 1..Len(a) PROVE Fitting(a[i], b[i + (Len(b) - Len(a))], going /\ i = Len(a))
  <2>1. i \in 1..m /\ i + (Len(b) - Len(a)) = i + (k + 1 - m) /\ Len(a) = m BY <1>4, <1>5
  <2> QED BY <1>7, <2>1
<1> QED BY <1>3, <1>8, <1>9 DEF Shows

LEMMA ShowsLast ==
  ASSUME NEW s \in Seq(ShownLine), NEW all \in Seq(Line), NEW old \in Line, Shows(s, Append(all, old), TRUE),
         NEW text, NEW kind, NEW why, [text |-> text, kind |-> kind, why |-> why] \in ShownLine, NEW l \in Line,
         NEW going \in BOOLEAN, Fitting([text |-> text, kind |-> kind, why |-> why], l, going)
  PROVE  Shows(Output!Rendered(s, text, kind, why), Append(all, l), going)
<1>1. PICK n \in Nat, k \in Nat, M \in Nat \ {0} : n = Len(s) /\ k = Len(all) /\ M = MaxLines
  BY LenProperties, ConsoleAssumption
<1>2. PICK a, b, c : a = Output!Rendered(s, text, kind, why) /\ b = Append(all, l) /\ c = Append(all, old) OBVIOUS
<1>3. Len(b) = k + 1 /\ b[k + 1] = l /\ \A i \in 1..k : b[i] = all[i] BY <1>1, <1>2, AppendProperties
<1>4. Len(c) = k + 1 /\ \A i \in 1..k : c[i] = all[i] BY <1>1, <1>2, AppendProperties
<1>5. n = (IF k + 1 > M THEN M ELSE k + 1) /\ \A i \in 1..n : Fitting(s[i], c[i + (k + 1 - n)], TRUE /\ i = n)
  <2>1. Shows(s, c, TRUE) BY <1>2
  <2>2. Len(s) = (IF Len(c) > MaxLines THEN MaxLines ELSE Len(c))
        /\ \A i \in 1..Len(s) : Fitting(s[i], c[i + (Len(c) - Len(s))], TRUE /\ i = Len(s))
    BY <2>1 DEF Shows
  <2>3. ASSUME NEW i \in 1..n PROVE Fitting(s[i], c[i + (k + 1 - n)], TRUE /\ i = n)
    <3>1. i \in 1..Len(s) /\ i + (Len(c) - Len(s)) = i + (k + 1 - n) /\ Len(s) = n BY <1>1, <1>4
    <3> QED BY <2>2, <3>1
  <2> QED BY <1>1, <1>4, <2>2, <2>3
<1>6. n # 0 BY <1>5
<1>7. Len(a) = n /\ a[n] = [text |-> text, kind |-> kind, why |-> why] /\ \A i \in 1..(n - 1) : a[i] = s[i]
  <2>1. Len(s) # 0 BY <1>1, <1>6
  <2>2. Len(a) = Len(s) /\ a[Len(a)] = [text |-> text, kind |-> kind, why |-> why] /\ \A i \in 1..(Len(a) - 1) : a[i] = s[i]
    BY <1>2, <2>1, RenderedIs
  <2> QED BY <1>1, <2>2
<1>8. ASSUME NEW i \in 1..n PROVE Fitting(a[i], b[i + (k + 1 - n)], going /\ i = n)
  <2>1. CASE i = n
    <3>1. i + (k + 1 - n) = k + 1 BY <2>1
    <3>2. (going /\ i = n) = going BY <2>1
    <3> QED BY <1>3, <1>7, <2>1, <3>1, <3>2
  <2>2. CASE i # n
    <3>1. i \in 1..(n - 1) /\ i + (k + 1 - n) \in 1..k BY <1>5, <2>2
    <3>2. a[i] = s[i] /\ b[i + (k + 1 - n)] = c[i + (k + 1 - n)] BY <1>3, <1>4, <1>7, <3>1
    <3>3. Fitting(s[i], c[i + (k + 1 - n)], TRUE /\ i = n) BY <1>5
    <3>4. (TRUE /\ i = n) = FALSE /\ (going /\ i = n) = FALSE BY <2>2
    <3> QED BY <3>2, <3>3, <3>4
  <2> QED BY <2>1, <2>2
<1>9. Len(a) = IF Len(b) > MaxLines THEN MaxLines ELSE Len(b) BY <1>1, <1>3, <1>5, <1>7
<1>10. \A i \in 1..Len(a) : Fitting(a[i], b[i + (Len(b) - Len(a))], going /\ i = Len(a)) BY <1>3, <1>7, <1>8
<1> QED BY <1>2, <1>9, <1>10 DEF Shows

-----------------------------------------------------------------------------
(* The console and what is read of the text agree.                         *)

Chips == [Tests -> {None, "running", "pass", "fail"}]
Cons == [lines : Seq(ShownLine), partial : OpenLine \cup {None}, chips : Chips, reported : Seq(Texts)]
Reading == [ended : Seq(Line), told : Seq(Texts), open : OpenLine \cup {None}]

Agrees(c, r) ==
  /\ c \in Cons /\ r \in Reading
  /\ c.partial = r.open /\ c.reported = r.told
  /\ Shows(c.lines, Output!AllLines(r), r.open # None)

\* Each chip says what the last line about its test says since the page set the
\* chips, and what it said then if there is none.
Follows(c) ==
  /\ basis.after \in 0..Len(c.reported)
  /\ \A t \in Tests, k \in (basis.after + 1)..Len(c.reported) :
       /\ Output!About(c.reported[k], t)
       /\ \A j \in (k + 1)..Len(c.reported) : ~Output!About(c.reported[j], t)
       => c.chips[t] = Output!Verdict(c.reported[k])
  /\ \A t \in Tests :
       (\A k \in (basis.after + 1)..Len(c.reported) : ~Output!About(c.reported[k], t))
         => c.chips[t] = basis.chips[t]

LEMMA FieldsOf ==
  ASSUME NEW c \in Cons
  PROVE  /\ c.lines \in Seq(ShownLine) /\ c.partial \in OpenLine \cup {None}
         /\ c.chips \in Chips /\ c.reported \in Seq(Texts)
BY DEF Cons

LEMMA ReadingOf ==
  ASSUME NEW r \in Reading
  PROVE  /\ r.ended \in Seq(Line) /\ r.told \in Seq(Texts) /\ r.open \in OpenLine \cup {None}
         /\ Output!AllLines(r) \in Seq(Line)
<1>1. r.ended \in Seq(Line) /\ r.told \in Seq(Texts) /\ r.open \in OpenLine \cup {None} BY DEF Reading
<1>2. r.open # None => r.open \in Line BY <1>1, LineIsOpen
<1>3. Output!AllLines(r) \in Seq(Line)
  <2>1. CASE r.open = None BY <1>1, <2>1 DEF Output!AllLines
  <2>2. CASE r.open # None
    <3>1. Append(r.ended, r.open) \in Seq(Line) BY <1>1, <1>2, <2>2, AppendProperties
    <3> QED BY <2>2, <3>1 DEF Output!AllLines
  <2> QED BY <2>1, <2>2
<1> QED BY <1>1, <1>3

LEMMA FewShown ==
  ASSUME NEW c, NEW r, Agrees(c, r)
  PROVE  Len(c.lines) <= MaxLines /\ Len(c.lines) \in Nat
<1>1. Output!AllLines(r) \in Seq(Line) BY ReadingOf DEF Agrees
<1>2. Len(Output!AllLines(r)) \in Nat BY <1>1, LenProperties
<1>3. Len(c.lines) = IF Len(Output!AllLines(r)) > MaxLines THEN MaxLines ELSE Len(Output!AllLines(r))
  BY DEF Agrees, Shows
<1> QED BY <1>2, <1>3, ConsoleAssumption

LEMMA TextLonger ==
  ASSUME NEW l \in OpenLine, NEW chunk
  PROVE  /\ [l EXCEPT !.text = @ \o chunk] = [text |-> l.text \o chunk, fd |-> l.fd]
         /\ [l EXCEPT !.text = Append(@, chunk)] = [text |-> Append(l.text, chunk), fd |-> l.fd]
<1>1. ASSUME NEW text PROVE [l EXCEPT !.text = text] = [text |-> text, fd |-> l.fd] BY DEF OpenLine
<1>2. PICK text : text = l.text \o chunk OBVIOUS
<1>3. PICK more : more = Append(l.text, chunk) OBVIOUS
<1>4. [l EXCEPT !.text = text] = [text |-> text, fd |-> l.fd] BY <1>1
<1>5. [l EXCEPT !.text = more] = [text |-> more, fd |-> l.fd] BY <1>1
<1>6. [l EXCEPT !.text = @ \o chunk] = [text |-> l.text \o chunk, fd |-> l.fd] BY <1>2, <1>4, Zenon
<1>7. [l EXCEPT !.text = Append(@, chunk)] = [text |-> Append(l.text, chunk), fd |-> l.fd] BY <1>3, <1>5, Zenon
<1> QED BY <1>6, <1>7

\* A line that has not ended may have any kind.
LEMMA GoingFits == ASSUME NEW text, NEW kind, NEW why, NEW fd
  PROVE Fitting([text |-> text, kind |-> kind, why |-> why], [text |-> text, fd |-> fd], TRUE)
BY DEF Fitting

\* What is read of a chunk without a newline.
Grown(r, chunk, fd) ==
  LET b == Output!Begun(r, fd)
  IN  [b EXCEPT !.open = [text |-> b.open.text \o chunk, fd |-> b.open.fd]]

LEMMA ExtendFits ==
  ASSUME NEW c, NEW r, Agrees(c, r), NEW chunk \in Texts, NEW fd \in {1, 2},
         NEW d, d = Output!ExtendPartial(c, chunk, fd)
  PROVE  /\ Agrees(d, Grown(r, chunk, fd))
         /\ d.chips = c.chips /\ d.reported = c.reported
<1> DEFINE grown == [text |-> Output!Begun(r, fd).open.text \o chunk, fd |-> Output!Begun(r, fd).open.fd]
<1>0. PICK l : l = grown OBVIOUS
<1> HIDE DEF grown
<1>1. c \in Cons /\ r \in Reading /\ c.partial = r.open /\ c.reported = r.told
      /\ Shows(c.lines, Output!AllLines(r), r.open # None)
  BY DEF Agrees
<1>2. /\ c.lines \in Seq(ShownLine) /\ c.partial \in OpenLine \cup {None}
      /\ c.chips \in Chips /\ c.reported \in Seq(Texts) /\ r.ended \in Seq(Line)
  BY <1>1, FieldsOf, ReadingOf
<1>3. PICK old : old = Output!Begun(r, fd).open OBVIOUS
<1>4. old = (IF r.open = None THEN [text |-> <<>>, fd |-> fd] ELSE r.open) /\ old \in OpenLine
  <2>1. CASE r.open = None
    <3>1. old = [text |-> <<>>, fd |-> fd] BY <1>1, <1>3, <2>1 DEF Output!Begun, Reading
    <3>2. <<>> \in Texts BY EmptySeq DEF Texts
    <3> QED BY <2>1, <3>1, <3>2 DEF OpenLine
  <2>2. CASE r.open # None
    <3>1. old = r.open BY <1>3, <2>2 DEF Output!Begun
    <3> QED BY <1>1, <1>2, <2>2, <3>1
  <2> QED BY <2>1, <2>2
<1>5. old.text \in Texts /\ old.fd \in {1, 2} BY <1>4 DEF OpenLine
<1>6. old.text \o chunk \in Texts BY <1>5, ConcatProperties DEF Texts
<1>7. l = [text |-> old.text \o chunk, fd |-> old.fd] /\ l \in OpenLine BY <1>0, <1>3, <1>5, <1>6 DEF OpenLine, grown
<1>8. l # None /\ l \in Line /\ old # None /\ old \in Line BY <1>4, <1>7, LineIsOpen
<1>9. PICK s, e : /\ s = (IF c.partial = None
                          THEN Output!Appended(c.lines, [text |-> <<>>, kind |-> "plain", why |-> FALSE])
                          ELSE c.lines)
                  /\ e = [text |-> l.text, kind |-> "plain", why |-> FALSE]
  OBVIOUS
<1>10. e \in ShownLine /\ [text |-> <<>>, kind |-> "plain", why |-> FALSE] \in ShownLine
  <2>1. l.text \in Seq(Output!Words \cup PageWords) BY <1>8 DEF Line
  <2>2. <<>> \in Seq(Output!Words \cup PageWords) BY EmptySeq
  <2> QED BY <1>9, <2>1, <2>2 DEF ShownLine, Kinds
<1>11. s \in Seq(ShownLine) /\ Shows(s, Append(r.ended, old), TRUE)
  <2>1. CASE r.open = None
    <3>1. PICK x : x = [text |-> <<>>, kind |-> "plain", why |-> FALSE] OBVIOUS
    <3>2. s = Output!Appended(c.lines, x) BY <1>1, <1>9, <2>1, <3>1
    <3>3. Shows(c.lines, r.ended, FALSE)
      <4>1. (r.open # None) = FALSE /\ Output!AllLines(r) = r.ended BY <2>1 DEF Output!AllLines
      <4> QED BY <1>1, <4>1
    <3>4. Fitting(x, old, TRUE) BY <1>4, <2>1, <3>1, GoingFits
    <3>5. Len(c.lines) <= MaxLines BY FewShown
    <3>6. x \in ShownLine BY <1>10, <3>1
    <3>7. s \in Seq(ShownLine) BY <1>2, <3>2, <3>5, <3>6, AppendedIs
    <3>8. Shows(Output!Appended(c.lines, x), Append(r.ended, old), TRUE)
      BY <1>2, <1>8, <3>3, <3>4, <3>6, ShowsMore
    <3> QED BY <3>2, <3>7, <3>8
  <2>2. CASE r.open # None
    <3>1. s = c.lines /\ old = r.open /\ (r.open # None) = TRUE BY <1>1, <1>4, <1>9, <2>2
    <3>2. Output!AllLines(r) = Append(r.ended, old) BY <2>2, <3>1 DEF Output!AllLines
    <3> QED BY <1>1, <1>2, <3>1, <3>2
  <2> QED BY <2>1, <2>2
<1>12. PICK a : a = Output!Rendered(s, l.text, "plain", FALSE) OBVIOUS
<1>13. Shows(a, Append(r.ended, l), TRUE)
  <2>1. Fitting(e, l, TRUE) BY <1>7, <1>9, GoingFits
  <2> QED BY <1>2, <1>8, <1>9, <1>10, <1>11, <1>12, <2>1, ShowsLast
<1>14. a \in Seq(ShownLine)
  <2>1. Len(s) # 0
    <3>1. Len(Append(r.ended, old)) = Len(r.ended) + 1 /\ Len(r.ended) \in Nat BY <1>2, <1>8, AppendProperties, LenProperties
    <3> QED BY <1>11, <3>1, ConsoleAssumption DEF Shows
  <2> QED BY <1>9, <1>10, <1>11, <1>12, <2>1, RenderedIs
<1>15. d = [c EXCEPT !.partial = l, !.lines = a]
  <2>1. (IF c.partial = None THEN [text |-> chunk, fd |-> fd] ELSE [c.partial EXCEPT !.text = @ \o chunk]) = l
    <3>1. CASE r.open = None
      <4>1. old.text \o chunk = chunk /\ old.fd = fd BY <1>4, <3>1, ConcatEmptySeq DEF Texts
      <4> QED BY <1>1, <1>7, <3>1, <4>1
    <3>2. CASE r.open # None
      <4>1. c.partial = old /\ old = [text |-> old.text, fd |-> old.fd] BY <1>1, <1>4, <3>2 DEF OpenLine
      <4>2. [old EXCEPT !.text = @ \o chunk] = [text |-> old.text \o chunk, fd |-> old.fd] BY <1>4, TextLonger
      <4> QED BY <1>1, <1>7, <3>2, <4>1, <4>2
    <3> QED BY <3>1, <3>2
  <2> QED BY <1>9, <1>12, <2>1 DEF Output!ExtendPartial
<1>16. d \in Cons /\ d.partial = l /\ d.lines = a /\ d.chips = c.chips /\ d.reported = c.reported
  BY <1>1, <1>7, <1>14, <1>15 DEF Cons
<1>17. PICK q : q = [Output!Begun(r, fd) EXCEPT !.open = l] OBVIOUS
<1>18. q = [ended |-> r.ended, told |-> r.told, open |-> l]
  BY <1>1, <1>17 DEF Output!Begun, Reading
<1>19. q \in Reading /\ Output!AllLines(q) = Append(r.ended, l) /\ (q.open # None) = TRUE
  BY <1>1, <1>7, <1>8, <1>18 DEF Reading, Output!AllLines
<1>20. Shows(d.lines, Output!AllLines(q), q.open # None) BY <1>13, <1>16, <1>19
<1>21. Agrees(d, q)
  <2>1. d.partial = q.open /\ d.reported = q.told BY <1>1, <1>16, <1>18
  <2> QED BY <1>16, <1>19, <1>20, <2>1 DEF Agrees
<1>22. q = Grown(r, chunk, fd) BY <1>0, <1>17 DEF Grown, grown
<1> QED BY <1>16, <1>21, <1>22

\* classify of any line.
LEMMA ClassifyIn == ASSUME NEW text, NEW fd PROVE Output!Classify(text, fd) \in Kinds
BY DEF Output!Classify, Kinds

LEMMA OnLineIs ==
  ASSUME NEW old \in Chips, NEW text \in Texts, NEW new, new = Output!OnLine(old, text)
  PROVE  /\ new \in Chips
         /\ \A t \in Tests : Output!About(text, t) => new[t] = Output!Verdict(text)
         /\ \A t \in Tests : ~Output!About(text, t) => new[t] = old[t]
<1>1. CASE text = <<>>
  <2>1. new = old BY <1>1 DEF Output!OnLine
  <2>2. \A t \in Tests : ~Output!About(text, t) BY <1>1 DEF Output!About
  <2> QED BY <2>1, <2>2
<1>2. CASE text # <<>>
  <2>1. PICK w \in Output!Words : w = Head(text) BY <1>2, HeadTailProperties DEF Texts
  <2>2. /\ w.say \in {"run", "pass", "fail", "text"} /\ (w.say # "text" => w.test \in Tests)
        /\ (w.say = "text" => w.test = None) /\ \A t \in Tests : t # None
    BY WordIs
  <2>3. \A t \in Tests : Output!About(text, t) <=> w.test = t /\ (w.say # "run" \/ Len(text) = 1)
    BY <1>2, <2>1 DEF Output!About
  <2>4. Output!Verdict(text) = IF w.say = "run" THEN "running" ELSE w.say BY <2>1 DEF Output!Verdict
  <2>5. CASE w.say = "run" /\ Len(text) = 1
    <3>1. new = [old EXCEPT ![w.test] = "running"] BY <1>2, <2>1, <2>5 DEF Output!OnLine
    <3> QED BY <2>2, <2>3, <2>4, <2>5, <3>1 DEF Chips
  <2>6. CASE w.say \in {"pass", "fail"}
    <3>1. new = [old EXCEPT ![w.test] = w.say] BY <1>2, <2>1, <2>6 DEF Output!OnLine
    <3> QED BY <2>2, <2>3, <2>4, <2>6, <3>1 DEF Chips
  <2>7. CASE ~(w.say = "run" /\ Len(text) = 1) /\ w.say \notin {"pass", "fail"}
    <3>1. new = old BY <1>2, <2>1, <2>7 DEF Output!OnLine
    <3>2. \A t \in Tests : ~Output!About(text, t) BY <2>2, <2>3, <2>7
    <3> QED BY <3>1, <3>2
  <2> QED BY <2>5, <2>6, <2>7
<1> QED BY <1>1, <1>2

\* Chips follow the lines whatever is shown of those.
LEMMA FollowsAlike ==
  ASSUME NEW c, NEW d, Follows(c), d.chips = c.chips, d.reported = c.reported
  PROVE  Follows(d)
<1>1. PICK h, q : h = c.chips /\ q = c.reported OBVIOUS
<1>2. d.chips = h /\ d.reported = q BY <1>1
<1> QED BY <1>1, <1>2, Zenon DEF Follows

\* A line that ends is reported, and its test's chip follows it.
LEMMA FollowsMore ==
  ASSUME NEW c \in Cons, Follows(c), NEW text \in Texts, NEW d,
         d.chips = Output!OnLine(c.chips, text), d.reported = Append(c.reported, text)
  PROVE  Follows(d)
<1>1. c.chips \in Chips /\ c.reported \in Seq(Texts) BY FieldsOf
<1>2. PICK n \in Nat : n = Len(c.reported) BY <1>1, LenProperties
<1>3. PICK a : a = d.reported OBVIOUS
<1>4. Len(a) = n + 1 /\ a[n + 1] = text /\ \A i \in 1..n : a[i] = c.reported[i]
  BY <1>1, <1>2, <1>3, AppendProperties
<1>5. /\ \A t \in Tests : Output!About(text, t) => d.chips[t] = Output!Verdict(text)
      /\ \A t \in Tests : ~Output!About(text, t) => d.chips[t] = c.chips[t]
  BY <1>1, OnLineIs
<1>6. PICK p \in 0..n : p = basis.after BY <1>2 DEF Follows
<1>7. ASSUME NEW t \in Tests, NEW k \in (p + 1)..Len(a), Output!About(a[k], t),
             \A j \in (k + 1)..Len(a) : ~Output!About(a[j], t)
      PROVE  d.chips[t] = Output!Verdict(a[k])
  <2>1. CASE k = n + 1 BY <1>4, <1>5, <1>7, <2>1
  <2>2. CASE k # n + 1
    <3>1. k \in (p + 1)..n /\ k \in 1..n /\ n + 1 \in (k + 1)..Len(a) BY <1>4, <1>6, <2>2
    <3>2. ~Output!About(text, t) BY <1>4, <1>7, <3>1
    <3>3. \A j \in (k + 1)..n : j \in (k + 1)..Len(a) /\ a[j] = c.reported[j] BY <1>4, <3>1
    <3>4. \A j \in (k + 1)..n : ~Output!About(c.reported[j], t) BY <1>7, <3>3
    <3>5. Output!About(c.reported[k], t) BY <1>4, <1>7, <3>1
    <3>6. c.chips[t] = Output!Verdict(c.reported[k]) BY <1>2, <1>6, <3>1, <3>4, <3>5 DEF Follows
    <3> QED BY <1>4, <1>5, <3>1, <3>2, <3>6
  <2> QED BY <2>1, <2>2
<1>8. ASSUME NEW t \in Tests, \A k \in (p + 1)..Len(a) : ~Output!About(a[k], t)
      PROVE  d.chips[t] = basis.chips[t]
  <2>1. n + 1 \in (p + 1)..Len(a) BY <1>4, <1>6
  <2>2. ~Output!About(text, t) BY <1>4, <1>8, <2>1
  <2>3. \A k \in (p + 1)..n : k \in (p + 1)..Len(a) /\ a[k] = c.reported[k] BY <1>4, <1>6
  <2>4. \A k \in (p + 1)..n : ~Output!About(c.reported[k], t) BY <1>8, <2>3
  <2>5. c.chips[t] = basis.chips[t] BY <1>2, <1>6, <2>4 DEF Follows
  <2> QED BY <1>5, <2>2, <2>5
<1>9. basis.after \in 0..Len(a) BY <1>4, <1>6
<1> QED BY <1>3, <1>6, <1>7, <1>8, <1>9 DEF Follows

\* What is typed in a console is a boolean.
LEMMA SeeWhyIn == ASSUME NEW text, NEW kind PROVE Output!SeeWhy(text, kind) \in BOOLEAN
BY DEF Output!SeeWhy

LEMMA EndFits ==
  ASSUME NEW c, NEW r, Agrees(c, r), NEW d, d = Output!EndPartial(c)
  PROVE  /\ Agrees(d, Output!Ended(r)) /\ d.partial = None
         /\ Follows(c) => Follows(d)
         /\ c.partial = None => d = c
<1>1. c \in Cons /\ r \in Reading /\ c.partial = r.open /\ c.reported = r.told
      /\ Shows(c.lines, Output!AllLines(r), r.open # None)
  BY DEF Agrees
<1>2. CASE r.open = None
  <2>1. d = c /\ Output!Ended(r) = r BY <1>1, <1>2 DEF Output!EndPartial, Output!Ended
  <2> QED BY <1>1, <1>2, <2>1
<1>3. CASE r.open # None
  <2>1. /\ c.lines \in Seq(ShownLine) /\ c.chips \in Chips /\ c.reported \in Seq(Texts)
        /\ r.ended \in Seq(Line) /\ r.open \in OpenLine
    BY <1>1, <1>3, FieldsOf, ReadingOf
  <2>2. PICK l \in OpenLine : l = r.open BY <2>1
  <2>3. l \in Line /\ l.text \in Texts /\ l.text \in Seq(Output!Words \cup PageWords) /\ l.fd \in {1, 2}
    BY LineIsOpen DEF OpenLine, Line
  <2>4. PICK kind \in Kinds : kind = Output!Classify(l.text, l.fd) BY ClassifyIn
  <2>5. PICK why \in BOOLEAN : why = Output!SeeWhy(l.text, kind) BY SeeWhyIn
  <2>6. PICK e \in ShownLine : e = [text |-> l.text, kind |-> kind, why |-> why] BY <2>3 DEF ShownLine
  <2>7. PICK a : a = Output!Rendered(c.lines, l.text, kind, why) OBVIOUS
  <2>8. Shows(c.lines, Append(r.ended, l), TRUE)
    <3>1. (r.open # None) = TRUE /\ Output!AllLines(r) = Append(r.ended, l) BY <1>3, <2>2 DEF Output!AllLines
    <3> QED BY <1>1, <3>1
  <2>9. Fitting(e, l, FALSE) BY <2>4, <2>6 DEF Fitting
  <2>10. Shows(a, Append(r.ended, l), FALSE) BY <2>1, <2>3, <2>6, <2>7, <2>8, <2>9, ShowsLast
  <2>11. a \in Seq(ShownLine)
    <3>1. Len(c.lines) # 0
      <4>1. Len(Append(r.ended, l)) = Len(r.ended) + 1 /\ Len(r.ended) \in Nat BY <2>1, <2>3, AppendProperties, LenProperties
      <4> QED BY <2>8, <4>1, ConsoleAssumption DEF Shows
    <3> QED BY <2>1, <2>6, <2>7, <3>1, RenderedIs
  <2>12. d = [c EXCEPT !.partial = None, !.lines = a, !.chips = Output!OnLine(@, l.text),
                       !.reported = Append(@, l.text)]
    BY <1>1, <1>3, <2>2, <2>4, <2>5, <2>7 DEF Output!EndPartial
  <2>13. /\ d.partial = None /\ d.lines = a /\ d.chips = Output!OnLine(c.chips, l.text)
         /\ d.reported = Append(c.reported, l.text)
    BY <1>1, <2>12 DEF Cons
  <2>14. Output!OnLine(c.chips, l.text) \in Chips BY <2>1, <2>3, OnLineIs
  <2>15. Append(c.reported, l.text) \in Seq(Texts) BY <2>1, <2>3, AppendProperties
  <2>16. d \in Cons BY <1>1, <2>11, <2>12, <2>14, <2>15 DEF Cons
  <2>17. PICK q : q = Output!Ended(r) OBVIOUS
  <2>18. q = [ended |-> Append(r.ended, l), told |-> Append(r.told, l.text), open |-> None]
    BY <1>3, <2>2, <2>17 DEF Output!Ended
  <2>19. Append(r.ended, l) \in Seq(Line) BY <2>1, <2>3, AppendProperties
  <2>20. q \in Reading /\ Output!AllLines(q) = Append(r.ended, l) /\ (q.open # None) = FALSE
    BY <1>1, <2>15, <2>18, <2>19 DEF Reading, Output!AllLines
  <2>21. Shows(d.lines, Output!AllLines(q), q.open # None) BY <2>10, <2>13, <2>20
  <2>22. Agrees(d, q)
    <3>1. d.partial = q.open /\ d.reported = q.told BY <1>1, <2>13, <2>18
    <3> QED BY <2>16, <2>20, <2>21, <3>1 DEF Agrees
  <2>23. Follows(c) => Follows(d) BY <1>1, <2>3, <2>13, FollowsMore
  <2> QED BY <1>1, <1>3, <2>13, <2>17, <2>22, <2>23
<1> QED BY <1>2, <1>3

\* A note ends the line before it and is a line of the page.
LEMMA NoteFits ==
  ASSUME NEW c, NEW r, Agrees(c, r), NEW what \in {"greeting", "command", "end", "hint"}, NEW kind \in Kinds,
         NEW d, d = Output!Noted(c, what, kind)
  PROVE  /\ Agrees(d, Output!ReadMark(r, Output!Says(what)))
         /\ Follows(c) => Follows(d)
         /\ Len(d.lines) # 0 /\ d.lines[Len(d.lines)] = Output!NoteLine(what, kind)
         /\ c.partial = None => d.chips = c.chips /\ d.reported = c.reported
<1>1. PICK b, q : b = Output!EndPartial(c) /\ q = Output!Ended(r) OBVIOUS
<1>2. /\ Agrees(b, q) /\ b.partial = None /\ (Follows(c) => Follows(b)) /\ (c.partial = None => b = c)
  BY <1>1, EndFits
<1>3. b \in Cons /\ q \in Reading /\ b.partial = q.open /\ b.reported = q.told
      /\ Shows(b.lines, Output!AllLines(q), q.open # None)
  BY <1>2 DEF Agrees
<1>4. b.lines \in Seq(ShownLine) /\ b.reported \in Seq(Texts) /\ q.ended \in Seq(Line) BY <1>3, FieldsOf, ReadingOf
<1>5. PICK w \in PageWords : w = [say |-> what, test |-> None] BY DEF PageWords
<1>6. <<w>> \in Seq(Output!Words \cup PageWords) BY <1>5
<1>7. PICK x, l : x = Output!NoteLine(what, kind) /\ l = [text |-> <<w>>, fd |-> 0] OBVIOUS
<1>8. x = [text |-> <<w>>, kind |-> kind, why |-> FALSE] BY <1>5, <1>7 DEF Output!NoteLine
<1>9. x \in ShownLine /\ l \in Line BY <1>6, <1>7, <1>8 DEF ShownLine, Line
<1>10. Fitting(x, l, FALSE) BY <1>7, <1>8 DEF Fitting
<1>11. (q.open # None) = FALSE /\ Output!AllLines(q) = q.ended BY <1>2, <1>3 DEF Output!AllLines
<1>12. PICK a : a = Output!Appended(b.lines, x) OBVIOUS
<1>13. Shows(a, Append(q.ended, l), FALSE) BY <1>3, <1>4, <1>9, <1>10, <1>11, <1>12, ShowsMore
<1>14. a \in Seq(ShownLine) /\ Len(a) # 0 /\ a[Len(a)] = x
  <2>1. Len(b.lines) <= MaxLines BY <1>2, FewShown
  <2>2. a \in Seq(ShownLine) /\ AppendedTo(a, b.lines, x) BY <1>4, <1>9, <1>12, <2>1, AppendedIs
  <2> QED BY <2>2 DEF AppendedTo
<1>15. d = [b EXCEPT !.lines = a] BY <1>1, <1>7, <1>12 DEF Output!Noted
<1>16. /\ d \in Cons /\ d.lines = a /\ d.partial = b.partial /\ d.chips = b.chips /\ d.reported = b.reported
  BY <1>3, <1>14, <1>15 DEF Cons
<1>17. PICK z : z = Output!ReadMark(r, Output!Says(what)) OBVIOUS
<1>18. z = [q EXCEPT !.ended = Append(@, l)]
  <2>1. Output!Says(what)[1] = 0 /\ Output!Says(what)[2] = w BY <1>5 DEF Output!Says
  <2> QED BY <1>1, <1>7, <1>17, <2>1 DEF Output!ReadMark
<1>19. Append(q.ended, l) \in Seq(Line) BY <1>4, <1>9, AppendProperties
<1>20. z \in Reading /\ z.ended = Append(q.ended, l) /\ z.open = q.open /\ z.told = q.told
  BY <1>3, <1>18, <1>19 DEF Reading
<1>21. (z.open # None) = FALSE /\ Output!AllLines(z) = Append(q.ended, l) BY <1>2, <1>3, <1>20 DEF Output!AllLines
<1>22. Agrees(d, z)
  <2>1. Shows(d.lines, Output!AllLines(z), z.open # None) BY <1>13, <1>16, <1>21
  <2>2. d.partial = z.open /\ d.reported = z.told BY <1>3, <1>16, <1>20
  <2> QED BY <1>16, <1>20, <2>1, <2>2 DEF Agrees
<1>23. Follows(b) => Follows(d) BY <1>16, FollowsAlike
<1> QED BY <1>2, <1>7, <1>14, <1>16, <1>17, <1>22, <1>23

-----------------------------------------------------------------------------
(* Reading what was said, and writing a text.                              *)

LEMMA ReadMarkIn ==
  ASSUME NEW r \in Reading, NEW m \in Marks
  PROVE  Output!ReadMark(r, m) \in Reading /\ Output!AllLines(Output!ReadMark(r, m)) # <<>>
<1>1. r.ended \in Seq(Line) /\ r.told \in Seq(Texts) /\ r.open \in OpenLine \cup {None} BY ReadingOf
<1>2. ASSUME NEW q \in Reading
      PROVE  Output!Ended(q) \in Reading /\ Output!Ended(q).open = None
             /\ (q.open # None => Output!Ended(q).ended # <<>>)
  <2>1. q.ended \in Seq(Line) /\ q.told \in Seq(Texts) /\ q.open \in OpenLine \cup {None} BY ReadingOf
  <2>2. CASE q.open = None
    <3>1. Output!Ended(q) = q BY <2>2 DEF Output!Ended
    <3> QED BY <2>2, <3>1
  <2>3. CASE q.open # None
    <3>1. PICK l \in OpenLine : l = q.open BY <2>1, <2>3
    <3>2. l \in Line /\ l.text \in Texts BY LineIsOpen DEF OpenLine
    <3>3. Output!Ended(q) = [ended |-> Append(q.ended, l), told |-> Append(q.told, l.text), open |-> None]
      BY <2>3, <3>1 DEF Output!Ended
    <3>4. Append(q.ended, l) \in Seq(Line) /\ Append(q.ended, l) # <<>> BY <2>1, <3>2, AppendProperties
    <3>5. Append(q.told, l.text) \in Seq(Texts) BY <2>1, <3>2, AppendProperties
    <3> QED BY <3>3, <3>4, <3>5 DEF Reading
  <2> QED BY <2>2, <2>3
<1>3. ASSUME NEW fd \in {1, 2}
      PROVE  Output!Begun(r, fd) \in Reading /\ Output!Begun(r, fd).open \in OpenLine
  <2>1. CASE r.open = None
    <3>1. PICK l : l = [text |-> <<>>, fd |-> fd] OBVIOUS
    <3>2. <<>> \in Texts BY EmptySeq DEF Texts
    <3>3. l \in OpenLine BY <3>1, <3>2 DEF OpenLine
    <3>4. Output!Begun(r, fd) = [r EXCEPT !.open = l] BY <2>1, <3>1 DEF Output!Begun
    <3> QED BY <3>3, <3>4 DEF Reading
  <2>2. CASE r.open # None
    <3>1. Output!Begun(r, fd) = r BY <2>2 DEF Output!Begun
    <3> QED BY <1>1, <2>2, <3>1
  <2> QED BY <2>1, <2>2
<1>4. PICK z : z = Output!ReadMark(r, m) OBVIOUS
<1>5. CASE m \in {0} \X PageWords
  <2>1. m[1] = 0 /\ m[2] \in PageWords BY <1>5
  <2>2. PICK l : l = [text |-> <<m[2]>>, fd |-> 0] OBVIOUS
  <2>3. <<m[2]>> \in Seq(Output!Words \cup PageWords) BY <2>1
  <2>4. l \in Line BY <2>2, <2>3 DEF Line
  <2>5. PICK q \in Reading : q = Output!Ended(r) /\ q.open = None BY <1>2
  <2>6. q.ended \in Seq(Line) BY ReadingOf
  <2>7. Append(q.ended, l) \in Seq(Line) /\ Append(q.ended, l) # <<>> BY <2>4, <2>6, AppendProperties
  <2>8. z = [q EXCEPT !.ended = Append(@, l)] BY <1>4, <2>1, <2>2, <2>5 DEF Output!ReadMark
  <2>9. z \in Reading /\ z.open = None /\ z.ended = Append(q.ended, l) BY <2>5, <2>7, <2>8 DEF Reading
  <2> QED BY <1>4, <2>7, <2>9 DEF Output!AllLines
<1>6. CASE m \in {1, 2} \X (Output!Words \cup {NL})
  <2>1. m[1] \in {1, 2} /\ m[1] # 0 /\ m[2] \in Output!Words \cup {NL} BY <1>6
  <2>2. PICK b \in Reading : b = Output!Begun(r, m[1]) /\ b.open \in OpenLine BY <1>3, <2>1
  <2>3. b.open # None /\ b.open.text \in Texts BY <2>2, LineIsOpen DEF OpenLine
  <2>4. CASE m[2] = NL
    <3>1. z = Output!Ended(b) BY <1>4, <2>1, <2>2, <2>4 DEF Output!ReadMark
    <3> QED BY <1>2, <1>4, <2>3, <3>1 DEF Output!AllLines
  <2>5. CASE m[2] # NL
    <3>1. Append(b.open.text, m[2]) \in Texts BY <2>1, <2>3, <2>5, AppendProperties DEF Texts
    <3>2. z = [b EXCEPT !.open.text = Append(@, m[2])] BY <1>4, <2>1, <2>2, <2>5 DEF Output!ReadMark
    <3>3. PICK l : l = [text |-> Append(b.open.text, m[2]), fd |-> b.open.fd] OBVIOUS
    <3>4. l \in OpenLine BY <2>2, <3>1, <3>3 DEF OpenLine
    <3>5. z = [b EXCEPT !.open = l]
      <4>1. [b.open EXCEPT !.text = Append(@, m[2])] = l BY <2>2, <3>3, TextLonger
      <4> QED BY <3>2, <4>1
    <3>6. z \in Reading /\ z.open = l /\ z.ended = b.ended BY <3>4, <3>5 DEF Reading
    <3>7. l # None /\ l \in Line BY <3>4, LineIsOpen
    <3>8. Append(b.ended, l) # <<>>
      <4>1. b.ended \in Seq(Line) BY <2>2, ReadingOf
      <4> QED BY <3>7, <4>1, AppendProperties
    <3> QED BY <1>4, <3>6, <3>7, <3>8 DEF Output!AllLines
  <2> QED BY <2>4, <2>5
<1> QED BY <1>5, <1>6 DEF Marks

\* The state before anything was said.
Unread == [ended |-> <<>>, told |-> <<>>, open |-> None]
IsReadOf(u, s) ==
  /\ u \in [0..Len(s) -> Reading] /\ u[0] = Unread
  /\ \A k \in 1..Len(s) : u[k] = Output!ReadMark(u[k - 1], s[k])

LEMMA ReadsAre ==
  ASSUME NEW s \in Seq(Marks)
  PROVE  IsReadOf(Output!Reads(s), s)
<1> DEFINE n == Len(s)
           S == Reading
           step == [x \in (1..n) \X S |-> Output!ReadMark(x[2], s[x[1]])]
<1>1. n \in Nat BY LenProperties
<1>2. Unread \in S
  <2>1. <<>> \in Seq(Line) /\ <<>> \in Seq(Texts) BY EmptySeq
  <2> QED BY <2>1 DEF Unread, Reading
<1>3. ASSUME NEW k \in 1..n, NEW r \in S PROVE Output!ReadMark(r, s[k]) \in S
  <2>1. s[k] \in Marks BY ElementOfSeq
  <2> QED BY <2>1, ReadMarkIn
<1>4. step \in [(1..n) \X S -> S]
  <2> HIDE DEF S, n
  <2>1. \A x \in (1..n) \X S : x[1] \in 1..n /\ x[2] \in S OBVIOUS
  <2> QED BY <1>3, <2>1
<1>5. \A k \in 1..n, r \in S : step[<<k, r>>] = Output!ReadMark(r, s[k])
  <2> HIDE DEF S, n
  <2> QED OBVIOUS
<1> HIDE DEF S, n, step
<1>6. PICK f \in [0..n -> S] : f[0] = Unread /\ \A k \in 1..n : f[k] = step[<<k, f[k - 1]>>]
  <2>1. HasValues(n, S, Unread, step) BY <1>1, <1>2, <1>4, IntervalRecursion
  <2> QED BY <2>1 DEF HasValues, Continues
<1>7. ASSUME NEW k \in 1..n PROVE f[k] = Output!ReadMark(f[k - 1], s[k])
  <2>1. k - 1 \in 0..n BY <1>1
  <2> QED BY <1>5, <1>6, <2>1
<1>8. f = [k \in 0..n |-> IF k = 0 THEN Unread ELSE Output!ReadMark(f[k - 1], s[k])]
  <2>1. ASSUME NEW k \in 0..n PROVE f[k] = IF k = 0 THEN Unread ELSE Output!ReadMark(f[k - 1], s[k])
    <3>1. k # 0 => k \in 1..n BY <1>1
    <3> QED BY <1>6, <1>7, <3>1
  <2> QED BY <1>6, <2>1
<1>9. PICK u : u = Output!Reads(s) OBVIOUS
<1>10. u = [k \in 0..n |-> IF k = 0 THEN Unread ELSE Output!ReadMark(u[k - 1], s[k])]
  BY <1>8, <1>9 DEF Output!Reads, Unread, n
<1>11. u[0] = Unread BY <1>1, <1>10
<1>12. ASSUME NEW k \in 1..n PROVE u[k] = Output!ReadMark(u[k - 1], s[k])
  <2> DEFINE b == [j \in 0..n |-> IF j = 0 THEN Unread ELSE Output!ReadMark(u[j - 1], s[j])]
  <2>1. k \in 0..n /\ k # 0 BY <1>1
  <2>2. b[k] = Output!ReadMark(u[k - 1], s[k]) BY <2>1
  <2>3. u = b BY <1>10
  <2> HIDE DEF b
  <2> QED BY <2>2, <2>3
<1>13. \A k \in 0..n : u[k] \in S
  <2> DEFINE P == {k \in Nat : k <= n => u[k] \in S}
  <2>1. 0 \in P BY <1>2, <1>11
  <2>2. ASSUME NEW k \in Nat, k \in P PROVE k + 1 \in P
    <3> SUFFICES ASSUME k + 1 <= n PROVE u[k + 1] \in S OBVIOUS
    <3>1. k + 1 \in 1..n /\ (k + 1) - 1 = k /\ u[k] \in S BY <1>1, <2>2
    <3>2. u[k + 1] = Output!ReadMark(u[k], s[k + 1]) BY <1>12, <3>1
    <3> QED BY <1>3, <3>1, <3>2
  <2>3. Nat \subseteq P
    <3> HIDE DEF P
    <3> QED BY <2>1, <2>2, NatSetInduction
  <2> QED BY <1>1, <2>3
<1>14. u \in [0..n -> S] BY <1>10, <1>13
<1> QED BY <1>9, <1>11, <1>12, <1>14 DEF IsReadOf, S, n

\* What was said first is read the same whatever follows.
LEMMA ReadsOn ==
  ASSUME NEW s \in Seq(Marks), NEW v \in Seq(Marks), Len(s) <= Len(v), \A i \in 1..Len(s) : v[i] = s[i]
  PROVE  Output!Reads(v)[Len(s)] = Output!Reads(s)[Len(s)]
<1>1. PICK n \in Nat : n = Len(s) BY LenProperties
<1>2. PICK f, g : f = Output!Reads(s) /\ g = Output!Reads(v) OBVIOUS
<1>3. f[0] = Unread /\ \A k \in 1..n : f[k] = Output!ReadMark(f[k - 1], s[k]) BY <1>1, <1>2, ReadsAre DEF IsReadOf
<1>4. g[0] = Unread /\ \A k \in 1..n : g[k] = Output!ReadMark(g[k - 1], v[k])
  <2>1. Len(v) \in Nat /\ \A k \in 1..n : k \in 1..Len(v) BY <1>1, LenProperties
  <2> QED BY <1>2, <2>1, ReadsAre DEF IsReadOf
<1> DEFINE P == {k \in Nat : k <= n => g[k] = f[k]}
<1>5. 0 \in P BY <1>3, <1>4
<1>6. ASSUME NEW k \in Nat, k \in P PROVE k + 1 \in P
  <2> SUFFICES ASSUME k + 1 <= n PROVE g[k + 1] = f[k + 1] OBVIOUS
  <2>1. k + 1 \in 1..n /\ (k + 1) - 1 = k /\ g[k] = f[k] BY <1>1, <1>6
  <2>2. f[k + 1] = Output!ReadMark(f[k], s[k + 1]) BY <1>3, <2>1
  <2>3. g[k + 1] = Output!ReadMark(g[k], v[k + 1]) BY <1>4, <2>1
  <2>4. v[k + 1] = s[k + 1] BY <1>1, <2>1
  <2> QED BY <2>1, <2>2, <2>3, <2>4
<1>7. Nat \subseteq P
  <2> HIDE DEF P
  <2> QED BY <1>5, <1>6, NatSetInduction
<1>8. g[n] = f[n] BY <1>7
<1> QED BY <1>1, <1>2, <1>8

\* A text that is read mark by mark.
IsWay(u, text, fd) == \A k \in 1..Len(text) : u[k] = Output!ReadMark(u[k - 1], <<fd, text[k]>>)

\* The reading g is b with its last line grown by a chunk.
GrownOf(g, b, chunk, fd) ==
  /\ b \in Reading /\ b.open \in OpenLine /\ b.open # None /\ g \in Reading
  /\ g = [ended |-> b.ended, told |-> b.told, open |-> [text |-> b.open.text \o chunk, fd |-> b.open.fd]]
  /\ Output!Begun(g, fd) = g

LEMMA GrownIs ==
  ASSUME NEW r \in Reading, NEW chunk \in Texts, NEW fd \in {1, 2}, NEW b, b = Output!Begun(r, fd),
         NEW g, g = Grown(r, chunk, fd)
  PROVE  GrownOf(g, b, chunk, fd)
<1>1. b \in Reading /\ b.open \in OpenLine
  <2>1. CASE r.open = None
    <3>1. PICK l : l = [text |-> <<>>, fd |-> fd] OBVIOUS
    <3>2. <<>> \in Texts BY EmptySeq DEF Texts
    <3>3. l \in OpenLine BY <3>1, <3>2 DEF OpenLine
    <3>4. b = [r EXCEPT !.open = l] BY <2>1, <3>1 DEF Output!Begun
    <3> QED BY <3>3, <3>4 DEF Reading
  <2>2. CASE r.open # None
    <3>1. b = r BY <2>2 DEF Output!Begun
    <3> QED BY <2>2, <3>1, ReadingOf
  <2> QED BY <2>1, <2>2
<1>2. b.open.text \in Texts /\ b.open.fd \in {1, 2} BY <1>1 DEF OpenLine
<1>3. b.open.text \o chunk \in Texts BY <1>2, ConcatProperties DEF Texts
<1>4. PICK l : l = [text |-> b.open.text \o chunk, fd |-> b.open.fd] OBVIOUS
<1>5. l \in OpenLine BY <1>2, <1>3, <1>4 DEF OpenLine
<1>6. b.open # None /\ l # None BY <1>1, <1>5, LineIsOpen
<1>8. g = [b EXCEPT !.open = l] BY <1>4 DEF Grown
<1>9. g = [ended |-> b.ended, told |-> b.told, open |-> l] BY <1>1, <1>8 DEF Reading
<1>10. g \in Reading /\ g.open = l BY <1>1, <1>5, <1>9 DEF Reading
<1>11. Output!Begun(g, fd) = g BY <1>6, <1>10 DEF Output!Begun
<1> QED BY <1>1, <1>4, <1>6, <1>9, <1>10, <1>11 DEF GrownOf

LEMMA GrownMore ==
  ASSUME NEW r \in Reading, NEW chunk \in Texts, NEW fd \in {1, 2}, NEW w \in Output!Words, NEW q,
         Output!Begun(q, fd) = Grown(r, chunk, fd)
  PROVE  Output!ReadMark(q, <<fd, w>>) = Grown(r, chunk \o <<w>>, fd)
<1>1. PICK b, g : b = Output!Begun(r, fd) /\ g = Grown(r, chunk, fd) OBVIOUS
<1>2. GrownOf(g, b, chunk, fd) BY <1>1, GrownIs
<1>3. b.open.text \in Texts /\ b.open.fd \in {1, 2} /\ b.open \in OpenLine BY <1>2 DEF GrownOf, OpenLine
<1>4. <<w>> \in Texts BY DEF Texts
<1>5. PICK more \in Texts : more = chunk \o <<w>> BY <1>4, ConcatProperties DEF Texts
<1>6. PICK l : l = [text |-> b.open.text \o chunk, fd |-> b.open.fd] OBVIOUS
<1>7. b.open.text \o chunk \in Texts BY <1>3, ConcatProperties DEF Texts
<1>8. l \in OpenLine BY <1>3, <1>6, <1>7 DEF OpenLine
<1>10. g = [ended |-> b.ended, told |-> b.told, open |-> l] BY <1>2, <1>6 DEF GrownOf
<1>11. Output!ReadMark(q, <<fd, w>>) = [g EXCEPT !.open.text = Append(@, w)]
  <2>1. w # NL BY WordIs
  <2>2. <<fd, w>>[1] = fd /\ <<fd, w>>[2] = w /\ fd # 0 OBVIOUS
  <2> QED BY <1>1, <2>1, <2>2 DEF Output!ReadMark
<1>12. PICK z : z = [text |-> Append(l.text, w), fd |-> l.fd] OBVIOUS
<1>13. [l EXCEPT !.text = Append(@, w)] = z BY <1>8, <1>12, TextLonger
<1>14. [g EXCEPT !.open.text = Append(@, w)] = [ended |-> b.ended, told |-> b.told, open |-> z]
  <2>1. g.open = l BY <1>10
  <2>2. [g EXCEPT !.open.text = Append(@, w)] = [g EXCEPT !.open = z] BY <1>13, <2>1
  <2> QED BY <1>10, <2>2
<1>15. Append(l.text, w) = b.open.text \o more
  <2>1. PICK t \in Seq(Output!Words) : t = b.open.text BY <1>3 DEF Texts
  <2>2. PICK c \in Seq(Output!Words) : c = chunk BY DEF Texts
  <2>3. PICK v \in Seq(Output!Words) : v = <<w>> BY <1>4 DEF Texts
  <2>4. (t \o c) \o v = t \o (c \o v) BY ConcatAssociative
  <2>5. t \o c \in Seq(Output!Words) BY ConcatProperties
  <2>6. Append(t \o c, w) = (t \o c) \o <<w>> BY <2>5, AppendIsConcat
  <2> QED BY <1>5, <1>6, <2>1, <2>2, <2>3, <2>4, <2>6
<1>16. z = [text |-> b.open.text \o more, fd |-> b.open.fd] BY <1>6, <1>12, <1>15
<1>17. Grown(r, more, fd) = [ended |-> b.ended, told |-> b.told, open |-> z]
  <2>1. PICK h : h = Grown(r, more, fd) OBVIOUS
  <2>2. GrownOf(h, b, more, fd) BY <1>1, <2>1, GrownIs
  <2> QED BY <1>16, <2>1, <2>2 DEF GrownOf
<1> QED BY <1>5, <1>11, <1>14, <1>17

LEMMA ChunkRead ==
  ASSUME NEW text \in Seq(Output!Words \cup {NL}), NEW fd \in {1, 2}, NEW u, IsWay(u, text, fd),
         NEW a \in 1..(Len(text) + 1), u[a - 1] \in Reading, NEW b \in (a - 1)..Len(text),
         \A j \in a..b : text[j] # NL
  PROVE  /\ SubSeq(text, a, b) \in Texts
         /\ Output!Begun(u[b], fd) = Grown(u[a - 1], SubSeq(text, a, b), fd)
         /\ b >= a => u[b] = Grown(u[a - 1], SubSeq(text, a, b), fd)
<1>1. PICK n \in Nat : n = Len(text) BY LenProperties
<1>2. PICK r \in Reading : r = u[a - 1] OBVIOUS
<1>3. ASSUME NEW m \in (a - 1)..b PROVE SubSeq(text, a, m) \in Texts
  <2>1. ASSUME NEW i \in a..m PROVE text[i] \in Output!Words
    <3>1. i \in 1..Len(text) /\ i \in a..b BY <1>1
    <3>2. text[i] \in Output!Words \cup {NL} BY <3>1, ElementOfSeq
    <3> QED BY <3>1, <3>2
  <2>2. a \in Int /\ m \in Int BY <1>1
  <2> QED BY <2>1, <2>2, SubSeqProperties DEF Texts
<1> DEFINE Is(m) == /\ Output!Begun(u[m], fd) = Grown(r, SubSeq(text, a, m), fd)
                    /\ m >= a => u[m] = Grown(r, SubSeq(text, a, m), fd)
           P == {k \in Nat : a - 1 + k <= b => Is(a - 1 + k)}
<1>4. 0 \in P
  <2>1. PICK m : m = a - 1 OBVIOUS
  <2>2. SubSeq(text, a, m) = <<>> BY <2>1, SubSeqEmpty
  <2>3. <<>> \in Texts BY EmptySeq DEF Texts
  <2>4. PICK b0, g : b0 = Output!Begun(r, fd) /\ g = Grown(r, <<>>, fd) OBVIOUS
  <2>5. GrownOf(g, b0, <<>>, fd) BY <2>3, <2>4, GrownIs
  <2>6. b0.open.text \o <<>> = b0.open.text
    <3>1. b0.open.text \in Seq(Output!Words) BY <2>5 DEF GrownOf, OpenLine, Texts
    <3> QED BY <3>1, ConcatEmptySeq
  <2>7. [text |-> b0.open.text, fd |-> b0.open.fd] = b0.open BY <2>5 DEF GrownOf, OpenLine
  <2>8. g = b0
    <3>1. g = [ended |-> b0.ended, told |-> b0.told, open |-> b0.open]
      BY <2>5, <2>6, <2>7 DEF GrownOf
    <3>2. b0 = [ended |-> b0.ended, told |-> b0.told, open |-> b0.open] BY <2>5 DEF GrownOf, Reading
    <3> QED BY <3>1, <3>2
  <2>9. Is(m)
    <3>1. ~(m >= a) BY <1>1, <2>1
    <3>2. Output!Begun(u[m], fd) = Grown(r, SubSeq(text, a, m), fd) BY <1>2, <2>1, <2>2, <2>4, <2>8
    <3> QED BY <3>1, <3>2
  <2> HIDE DEF Is
  <2>10. a - 1 + 0 = m BY <2>1
  <2> QED BY <2>9, <2>10
<1>5. ASSUME NEW k \in Nat, k \in P PROVE k + 1 \in P
  <2> SUFFICES ASSUME a - 1 + (k + 1) <= b PROVE Is(a - 1 + (k + 1)) OBVIOUS
  <2>1. PICK m \in Nat : m = a - 1 + k BY <1>1
  <2>2. m \in (a - 1)..b /\ m + 1 \in a..b /\ m + 1 \in 1..n /\ (m + 1) - 1 = m /\ a - 1 + (k + 1) = m + 1 BY <1>1, <2>1
  <2>3. Is(m)
    <3> HIDE DEF Is
    <3> QED BY <1>5, <2>1, <2>2
  <2>4. PICK ch \in Texts : ch = SubSeq(text, a, m) BY <1>3, <2>2
  <2>5. PICK w : w = text[m + 1] OBVIOUS
  <2>6. w \in Output!Words
    <3>1. text[m + 1] \in Output!Words \cup {NL} BY <1>1, <2>2, ElementOfSeq
    <3> QED BY <2>2, <2>5, <3>1
  <2>7. u[m + 1] = Output!ReadMark(u[m], <<fd, w>>) BY <1>1, <2>2, <2>5 DEF IsWay
  <2>8. u[m + 1] = Grown(r, ch \o <<w>>, fd) BY <2>3, <2>4, <2>6, <2>7, GrownMore
  <2>9. SubSeq(text, a, m + 1) = ch \o <<w>>
    <3>1. a \in 1..Len(text) /\ m + 1 \in a..Len(text) BY <1>1, <2>2
    <3> QED BY <2>2, <2>4, <2>5, <3>1, SubSeqRecursiveSecond
  <2>10. <<w>> \in Texts BY <2>6 DEF Texts
  <2>11. PICK more \in Texts : more = ch \o <<w>> BY <2>10, ConcatProperties DEF Texts
  <2>12. Output!Begun(u[m + 1], fd) = Grown(r, ch \o <<w>>, fd)
    <3>1. PICK b0, g : b0 = Output!Begun(r, fd) /\ g = Grown(r, more, fd) OBVIOUS
    <3>2. GrownOf(g, b0, more, fd) BY <3>1, GrownIs
    <3>3. Output!Begun(g, fd) = g BY <3>2 DEF GrownOf
    <3> QED BY <2>8, <2>11, <3>1, <3>3
  <2>13. Is(m + 1) BY <2>8, <2>9, <2>12
  <2> HIDE DEF Is
  <2> QED BY <2>2, <2>13
<1>6. Nat \subseteq P
  <2> HIDE DEF P
  <2> QED BY <1>4, <1>5, NatSetInduction
<1>7. Is(b)
  <2>1. b - (a - 1) \in Nat /\ a - 1 + (b - (a - 1)) = b BY <1>1
  <2> HIDE DEF Is
  <2>2. b - (a - 1) \in P BY <1>6, <2>1
  <2> QED BY <2>1, <2>2
<1>8. b \in (a - 1)..b BY <1>1
<1> QED BY <1>2, <1>3, <1>7, <1>8

-----------------------------------------------------------------------------
\* What write has done when it has come to mark k: the lines before x.from are
\* written, and no line ends from there on.
CutStates == [c : Cons, from : Nat]
AtCut(x, k, text, u, keep) ==
  /\ x \in CutStates /\ x.from \in 1..(k + 1)
  /\ Agrees(x.c, u[x.from - 1])
  /\ \A j \in x.from..k : text[j] # NL
  /\ keep => Follows(x.c)

LEMMA CutOnce ==
  ASSUME NEW text \in Seq(Output!Words \cup {NL}), NEW fd \in {1, 2}, NEW u, IsWay(u, text, fd),
         \A i \in 0..Len(text) : u[i] \in Reading, NEW k \in 1..Len(text), NEW keep \in BOOLEAN,
         NEW x, AtCut(x, k - 1, text, u, keep), NEW y, y = Output!Cut(x, text, k, fd)
  PROVE  AtCut(y, k, text, u, keep)
<1>1. PICK n \in Nat : n = Len(text) /\ k \in 1..n BY LenProperties
<1>2. /\ x \in CutStates /\ x.from \in 1..k /\ Agrees(x.c, u[x.from - 1])
      /\ \A j \in x.from..(k - 1) : text[j] # NL
      /\ keep => Follows(x.c)
  <2>1. (k - 1) + 1 = k BY <1>1
  <2> QED BY <2>1 DEF AtCut
<1>3. CASE text[k] # NL
  <2>1. y = x BY <1>3 DEF Output!Cut
  <2>2. x.from \in 1..(k + 1) BY <1>1, <1>2
  <2>3. \A j \in x.from..k : text[j] # NL
    <3>1. ASSUME NEW j \in x.from..k PROVE text[j] # NL
      <4>1. j = k \/ j \in x.from..(k - 1) BY <1>1, <1>2
      <4> QED BY <1>2, <1>3, <4>1
    <3> QED BY <3>1
  <2> QED BY <1>2, <2>1, <2>2, <2>3 DEF AtCut
<1>4. CASE text[k] = NL
  <2>1. PICK a \in 1..n : a = x.from /\ a <= k BY <1>1, <1>2
  <2>2. PICK b \in 0..n : b = k - 1 BY <1>1
  <2>3. a \in 1..(Len(text) + 1) /\ b \in (a - 1)..Len(text) /\ a - 1 \in 0..Len(text) BY <1>1, <2>1, <2>2
  <2>4. u[a - 1] \in Reading BY <2>3
  <2>5. \A j \in a..b : text[j] # NL BY <1>2, <2>1, <2>2
  <2>6. PICK chunk : chunk = SubSeq(text, a, b) OBVIOUS
  <2>7. chunk \in Texts /\ Output!Begun(u[b], fd) = Grown(u[a - 1], chunk, fd) BY <2>3, <2>4, <2>5, <2>6, ChunkRead
  <2>8. PICK e : e = Output!ExtendPartial(x.c, chunk, fd) OBVIOUS
  <2>9. /\ Agrees(e, Grown(u[a - 1], chunk, fd)) /\ e.chips = x.c.chips /\ e.reported = x.c.reported
    <3>1. PICK c, r : c = x.c /\ r = u[a - 1] OBVIOUS
    <3>2. Agrees(c, r) BY <1>2, <2>1, <3>1
    <3>3. e = Output!ExtendPartial(c, chunk, fd) BY <2>8, <3>1
    <3> QED BY <2>7, <3>1, <3>2, <3>3, ExtendFits
  <2>10. keep => Follows(e)
    <3>1. PICK c : c = x.c OBVIOUS
    <3>2. e.chips = c.chips /\ e.reported = c.reported BY <2>9, <3>1
    <3>3. keep => Follows(c) BY <1>2, <3>1
    <3> QED BY <3>2, <3>3, FollowsAlike
  <2>11. PICK d : d = Output!EndPartial(e) OBVIOUS
  <2>12. Agrees(d, Output!Ended(Grown(u[a - 1], chunk, fd))) /\ (Follows(e) => Follows(d))
    <3>1. PICK r : r = Grown(u[a - 1], chunk, fd) OBVIOUS
    <3> QED BY <2>9, <2>11, <3>1, EndFits
  <2>13. u[k] = Output!ReadMark(u[b], <<fd, NL>>) BY <1>4, <2>2 DEF IsWay
  <2>14. u[k] = Output!Ended(Output!Begun(u[b], fd))
    <3>1. <<fd, NL>>[1] = fd /\ <<fd, NL>>[2] = NL /\ fd # 0 OBVIOUS
    <3> QED BY <2>13, <3>1 DEF Output!ReadMark
  <2>15. Agrees(d, u[k]) BY <2>7, <2>12, <2>14
  <2>16. y = [c |-> d, from |-> k + 1] BY <1>4, <2>1, <2>2, <2>6, <2>8, <2>11 DEF Output!Cut
  <2>17. y.c = d /\ y.from = k + 1 /\ y \in CutStates
    <3>1. d \in Cons BY <2>15 DEF Agrees
    <3> QED BY <1>1, <2>16, <3>1 DEF CutStates
  <2>18. y.from \in 1..(k + 1) /\ y.from - 1 = k /\ \A j \in y.from..k : FALSE BY <1>1, <2>17
  <2> QED BY <2>10, <2>12, <2>15, <2>17, <2>18 DEF AtCut
<1> QED BY <1>3, <1>4

LEMMA CutsAre ==
  ASSUME NEW text \in Seq(Output!Words \cup {NL}), NEW fd \in {1, 2}, NEW u, IsWay(u, text, fd),
         \A i \in 0..Len(text) : u[i] \in Reading, NEW c, Agrees(c, u[0]), NEW keep \in BOOLEAN,
         keep => Follows(c)
  PROVE  AtCut(Output!Cuts(c, text, fd)[Len(text)], Len(text), text, u, keep)
<1>1. PICK n \in Nat : n = Len(text) BY LenProperties
<1>2. PICK base : base = [c |-> c, from |-> 1] OBVIOUS
<1>3. AtCut(base, 0, text, u, keep)
  <2>1. c \in Cons BY DEF Agrees
  <2>2. base \in CutStates /\ base.c = c /\ base.from = 1 BY <1>2, <2>1 DEF CutStates
  <2>3. base.from \in 1..(0 + 1) /\ base.from - 1 = 0 /\ \A j \in base.from..0 : FALSE BY <2>2
  <2> QED BY <2>2, <2>3 DEF AtCut
<1> DEFINE S == CutStates
           next(k, x) == Output!Cut(x, text, k, fd)
           step == [p \in (1..n) \X S |-> IF next(p[1], p[2]) \in S THEN next(p[1], p[2]) ELSE base]
<1>4. ASSUME NEW k \in 1..n, NEW x, AtCut(x, k - 1, text, u, keep) PROVE AtCut(next(k, x), k, text, u, keep)
  <2>1. PICK y : y = next(k, x) OBVIOUS
  <2> QED BY <1>1, <1>4, <2>1, CutOnce
<1>5. base \in S BY <1>3 DEF AtCut
<1>6. \A k \in 1..n, x \in S : step[<<k, x>>] = IF next(k, x) \in S THEN next(k, x) ELSE base
  <2> HIDE DEF S, next
  <2> QED OBVIOUS
<1>7. step \in [(1..n) \X S -> S]
  <2> HIDE DEF S, next
  <2> QED BY <1>5
<1> HIDE DEF S, next, step
<1>8. PICK f \in [0..n -> S] : f[0] = base /\ \A k \in 1..n : f[k] = step[<<k, f[k - 1]>>]
  <2>1. HasValues(n, S, base, step) BY <1>5, <1>7, IntervalRecursion
  <2> QED BY <2>1 DEF HasValues, Continues
<1> DEFINE At(g, k) == AtCut(g[k], k, text, u, keep)
<1>9. ASSUME NEW g, g[0] = base, \A k \in 1..n : At(g, k - 1) => g[k] = next(k, g[k - 1])
      PROVE  \A k \in 0..n : At(g, k)
  <2> DEFINE P == {k \in Nat : k <= n => At(g, k)}
  <2>1. 0 \in P BY <1>3, <1>9
  <2>2. ASSUME NEW k \in Nat, k \in P PROVE k + 1 \in P
    <3> SUFFICES ASSUME k + 1 <= n PROVE At(g, k + 1) OBVIOUS
    <3>1. k + 1 \in 1..n /\ (k + 1) - 1 = k BY <1>1
    <3>2. At(g, k)
      <4> HIDE DEF At
      <4> QED BY <1>1, <2>2, <3>1
    <3>3. g[k + 1] = next(k + 1, g[k])
      <4> HIDE DEF At
      <4> QED BY <1>9, <3>1, <3>2
    <3> QED BY <1>4, <3>1, <3>2, <3>3
  <2>3. Nat \subseteq P
    <3> HIDE DEF P
    <3> QED BY <2>1, <2>2, NatSetInduction
  <2> HIDE DEF At
  <2> QED BY <1>1, <2>3
<1>10. \A k \in 0..n : At(f, k)
  <2>1. ASSUME NEW k \in 1..n, At(f, k - 1) PROVE f[k] = next(k, f[k - 1])
    <3>1. f[k - 1] \in S BY <1>1, <1>8, <2>1
    <3>2. next(k, f[k - 1]) \in S
      <4>1. AtCut(next(k, f[k - 1]), k, text, u, keep) BY <1>4, <2>1
      <4> QED BY <4>1 DEF AtCut, S
    <3> QED BY <1>6, <1>8, <3>1, <3>2
  <2> HIDE DEF At
  <2> QED BY <1>8, <1>9, <2>1
<1>11. ASSUME NEW k \in 1..n PROVE f[k] = next(k, f[k - 1])
  <2>1. k - 1 \in 0..n /\ f[k - 1] \in S BY <1>1, <1>8
  <2>2. At(f, k - 1)
    <3> HIDE DEF At
    <3> QED BY <1>10, <2>1
  <2>3. next(k, f[k - 1]) \in S
    <3>1. AtCut(next(k, f[k - 1]), k, text, u, keep) BY <1>4, <2>2
    <3> QED BY <3>1 DEF AtCut, S
  <2> QED BY <1>6, <1>8, <2>1, <2>3
<1>12. f = [k \in 0..n |-> IF k = 0 THEN base ELSE next(k, f[k - 1])]
  <2>1. ASSUME NEW k \in 0..n PROVE f[k] = IF k = 0 THEN base ELSE next(k, f[k - 1])
    <3>1. k # 0 => k \in 1..n BY <1>1
    <3> QED BY <1>8, <1>11, <3>1
  <2> QED BY <1>8, <2>1
<1>13. PICK v : v = Output!Cuts(c, text, fd) OBVIOUS
<1>14. v = [k \in 0..n |-> IF k = 0 THEN base ELSE next(k, v[k - 1])]
  BY <1>1, <1>2, <1>12, <1>13 DEF Output!Cuts, next
<1>15. v[0] = base BY <1>1, <1>14
<1>16. ASSUME NEW k \in 1..n PROVE v[k] = next(k, v[k - 1])
  <2> DEFINE b == [j \in 0..n |-> IF j = 0 THEN base ELSE next(j, v[j - 1])]
  <2>1. k \in 0..n /\ k # 0 BY <1>1
  <2>2. b[k] = next(k, v[k - 1]) BY <2>1
  <2>3. v = b BY <1>14
  <2> HIDE DEF b
  <2> QED BY <2>2, <2>3
<1>17. \A k \in 0..n : At(v, k)
  <2> HIDE DEF At
  <2> QED BY <1>9, <1>15, <1>16
<1>18. n \in 0..n BY <1>1
<1>19. At(v, n)
  <2> HIDE DEF At
  <2> QED BY <1>17, <1>18
<1> QED BY <1>1, <1>13, <1>19

\* A text is written as it is read, however it is cut.
LEMMA WrittenFits ==
  ASSUME NEW text \in Seq(Output!Words \cup {NL}), NEW fd \in {1, 2}, NEW u, IsWay(u, text, fd),
         \A i \in 0..Len(text) : u[i] \in Reading, NEW c, Agrees(c, u[0]),
         NEW d, d = Output!Written(c, text, fd)
  PROVE  Agrees(d, u[Len(text)]) /\ (Follows(c) => Follows(d))
<1>1. PICK n \in Nat : n = Len(text) BY LenProperties
<1>2. PICK keep \in BOOLEAN : keep = Follows(c) BY DEF Follows
<1>3. PICK x : x = Output!Cuts(c, text, fd)[n] OBVIOUS
<1>4. AtCut(x, n, text, u, keep)
  <2>1. keep => Follows(c) BY <1>2
  <2> QED BY <1>1, <1>3, <2>1, CutsAre
<1>5. /\ x \in CutStates /\ x.from \in 1..(n + 1) /\ Agrees(x.c, u[x.from - 1])
      /\ \A j \in x.from..n : text[j] # NL
      /\ keep => Follows(x.c)
  BY <1>4 DEF AtCut
<1>6. d = IF x.from > n THEN x.c ELSE Output!ExtendPartial(x.c, SubSeq(text, x.from, n), fd)
  BY <1>1, <1>3 DEF Output!Written
<1>7. CASE x.from > n
  <2>1. x.from - 1 = n /\ d = x.c BY <1>5, <1>6, <1>7
  <2> QED BY <1>1, <1>2, <1>5, <2>1
<1>8. CASE ~(x.from > n)
  <2>1. PICK a \in 1..n : a = x.from BY <1>5, <1>8
  <2>2. PICK b \in 0..n : b = n BY <1>1
  <2>3. a \in 1..(Len(text) + 1) /\ b \in (a - 1)..Len(text) /\ a - 1 \in 0..Len(text) /\ b >= a BY <1>1, <2>1, <2>2
  <2>4. u[a - 1] \in Reading BY <2>3
  <2>5. \A j \in a..b : text[j] # NL BY <1>5, <2>1, <2>2
  <2>6. PICK chunk : chunk = SubSeq(text, a, b) OBVIOUS
  <2>7. chunk \in Texts /\ u[b] = Grown(u[a - 1], chunk, fd) BY <2>3, <2>4, <2>5, <2>6, ChunkRead
  <2>8. d = Output!ExtendPartial(x.c, chunk, fd) BY <1>6, <1>8, <2>1, <2>2, <2>6
  <2>9. Agrees(d, Grown(u[a - 1], chunk, fd)) /\ d.chips = x.c.chips /\ d.reported = x.c.reported
    <3>1. PICK e, r : e = x.c /\ r = u[a - 1] OBVIOUS
    <3>2. Agrees(e, r) BY <1>5, <2>1, <3>1
    <3>3. d = Output!ExtendPartial(e, chunk, fd) BY <2>8, <3>1
    <3> QED BY <2>7, <3>1, <3>2, <3>3, ExtendFits
  <2>10. keep => Follows(d)
    <3>1. PICK e : e = x.c OBVIOUS
    <3>2. d.chips = e.chips /\ d.reported = e.reported BY <2>9, <3>1
    <3>3. keep => Follows(e) BY <1>5, <3>1
    <3> QED BY <3>2, <3>3, FollowsAlike
  <2> QED BY <1>1, <1>2, <2>2, <2>7, <2>9, <2>10
<1> QED BY <1>7, <1>8

-----------------------------------------------------------------------------
ReadIs(s) == Output!Reads(s)[Len(s)]

LEMMA ReadIn ==
  ASSUME NEW s \in Seq(Marks)
  PROVE  ReadIs(s) \in Reading /\ (Output!AllLines(ReadIs(s)) = <<>> => s = <<>>)
<1>1. PICK n \in Nat : n = Len(s) BY LenProperties
<1>2. PICK u : u = Output!Reads(s) OBVIOUS
<1>3. u \in [0..n -> Reading] /\ \A k \in 1..n : u[k] = Output!ReadMark(u[k - 1], s[k])
  BY <1>1, <1>2, ReadsAre DEF IsReadOf
<1>4. u[n] \in Reading BY <1>3
<1>5. s # <<>> => Output!AllLines(u[n]) # <<>>
  <2>1. SUFFICES ASSUME s # <<>> PROVE Output!AllLines(u[n]) # <<>> OBVIOUS
  <2>2. n \in 1..n /\ n - 1 \in 0..n BY <1>1, <2>1, EmptySeq
  <2>3. s[n] \in Marks BY <1>1, <2>2, ElementOfSeq
  <2>4. u[n - 1] \in Reading /\ u[n] = Output!ReadMark(u[n - 1], s[n]) BY <1>3, <2>2
  <2> QED BY <2>3, <2>4, ReadMarkIn
<1> QED BY <1>1, <1>2, <1>4, <1>5 DEF ReadIs

LEMMA ReadOne ==
  ASSUME NEW s \in Seq(Marks), NEW m \in Marks
  PROVE  ReadIs(Append(s, m)) = Output!ReadMark(ReadIs(s), m)
<1>1. PICK n \in Nat : n = Len(s) BY LenProperties
<1>2. PICK v : v = Append(s, m) OBVIOUS
<1>3. v \in Seq(Marks) /\ Len(v) = n + 1 /\ v[n + 1] = m /\ \A i \in 1..n : v[i] = s[i]
  BY <1>1, <1>2, AppendProperties
<1>4. n + 1 \in 1..(n + 1) /\ (n + 1) - 1 = n /\ n <= n + 1 BY <1>1
<1>5. Output!Reads(v)[n + 1] = Output!ReadMark(Output!Reads(v)[n], v[n + 1])
  <2>1. IsReadOf(Output!Reads(v), v) BY <1>3, ReadsAre
  <2> QED BY <1>3, <1>4, <2>1 DEF IsReadOf
<1>6. Output!Reads(v)[n] = Output!Reads(s)[n] BY <1>1, <1>3, <1>4, ReadsOn
<1> QED BY <1>1, <1>2, <1>3, <1>5, <1>6 DEF ReadIs

LEMMA ReadNone == ReadIs(<<>>) = Unread
<1>1. <<>> \in Seq(Marks) /\ Len(<<>>) = 0 BY EmptySeq
<1>2. IsReadOf(Output!Reads(<<>>), <<>>) BY <1>1, ReadsAre
<1> QED BY <1>1, <1>2 DEF IsReadOf, ReadIs

\* What the page says is a mark.
LEMMA SaysIn == ASSUME NEW what \in {"greeting", "command", "end", "hint"}
                PROVE Output!Says(what) \in Marks /\ (what # "greeting" => Output!Says(what) # Output!Says("greeting"))
<1>1. PICK w \in PageWords : w = [say |-> what, test |-> None] BY DEF PageWords
<1>2. Output!Says(what) = <<0, w>> BY <1>1 DEF Output!Says
<1>3. Output!Says(what) \in Marks BY <1>2 DEF Marks
<1>4. what # "greeting" => Output!Says(what) # Output!Says("greeting")
  <2>1. Output!Says(what)[2].say = what /\ Output!Says("greeting")[2].say = "greeting" BY DEF Output!Says
  <2> QED BY <2>1
<1> QED BY <1>3, <1>4

\* An empty console.
Fresh(marked) == [lines |-> <<>>, partial |-> None, chips |-> marked, reported |-> <<>>]

LEMMA FreshFits == ASSUME NEW marked \in Chips PROVE Agrees(Fresh(marked), Unread)
<1>1. <<>> \in Seq(ShownLine) /\ <<>> \in Seq(Texts) /\ <<>> \in Seq(Line) /\ Len(<<>>) = 0 BY EmptySeq
<1>2. PICK c, r : c = Fresh(marked) /\ r = Unread OBVIOUS
<1>3. c \in Cons /\ c.lines = <<>> /\ c.partial = None /\ c.reported = <<>> BY <1>1, <1>2 DEF Cons, Fresh
<1>4. r \in Reading /\ r.ended = <<>> /\ r.told = <<>> /\ r.open = None BY <1>1, <1>2 DEF Reading, Unread
<1>5. Output!AllLines(r) = <<>> BY <1>4 DEF Output!AllLines
<1>6. Shows(<<>>, <<>>, FALSE)
  <2>1. ~(Len(<<>>) > MaxLines) BY <1>1, ConsoleAssumption
  <2>2. \A i \in 1..Len(<<>>) : FALSE BY <1>1
  <2> QED BY <2>1, <2>2 DEF Shows
<1>7. Shows(c.lines, Output!AllLines(r), r.open # None)
  <2>1. (r.open # None) = FALSE BY <1>4
  <2> QED BY <1>3, <1>5, <1>6, <2>1
<1> QED BY <1>2, <1>3, <1>4, <1>7 DEF Agrees

\* A note in an empty console.
LEMMA FreshNote ==
  ASSUME NEW marked \in Chips, NEW what \in {"greeting", "command", "end", "hint"}, NEW kind \in Kinds,
         NEW d, d = Output!Noted(Fresh(marked), what, kind)
  PROVE  /\ Agrees(d, ReadIs(<<Output!Says(what)>>))
         /\ d = [lines |-> <<Output!NoteLine(what, kind)>>, partial |-> None, chips |-> marked, reported |-> <<>>]
<1>1. PICK c : c = Fresh(marked) OBVIOUS
<1>2. c.lines = <<>> /\ c.partial = None /\ c.chips = marked /\ c.reported = <<>> BY <1>1 DEF Fresh
<1>3. Agrees(c, Unread) BY <1>1, FreshFits
<1>4. PICK r : r = Unread OBVIOUS
<1>5. Agrees(c, r) BY <1>3, <1>4
<1>6. Agrees(d, Output!ReadMark(r, Output!Says(what)))
  <2>1. PICK e : e = Output!Noted(c, what, kind) OBVIOUS
  <2>2. Agrees(e, Output!ReadMark(r, Output!Says(what))) BY <1>5, <2>1, NoteFits
  <2>3. e = d BY <1>1, <2>1
  <2> QED BY <2>2, <2>3
<1>8. ReadIs(<<Output!Says(what)>>) = Output!ReadMark(r, Output!Says(what))
  <2>1. PICK m \in Marks : m = Output!Says(what) BY SaysIn
  <2>2. PICK e \in Seq(Marks) : e = <<>> BY EmptySeq
  <2>3. Append(e, m) = <<m>> BY <2>2
  <2>4. ReadIs(Append(e, m)) = Output!ReadMark(ReadIs(e), m) BY ReadOne
  <2>5. ReadIs(e) = r BY <1>4, <2>2, ReadNone
  <2> QED BY <2>1, <2>3, <2>4, <2>5
<1>9. PICK x : x = Output!NoteLine(what, kind) OBVIOUS
<1>10. PICK a : a = Output!Appended(<<>>, x) OBVIOUS
<1>11. Output!EndPartial(c) = c BY <1>2 DEF Output!EndPartial
<1>12. d = [c EXCEPT !.lines = a] BY <1>1, <1>2, <1>9, <1>10, <1>11 DEF Output!Noted
<1>13. d = [lines |-> a, partial |-> None, chips |-> marked, reported |-> <<>>] BY <1>1, <1>12 DEF Fresh
<1>14. a = <<x>>
  <2>1. a \in Seq({x}) /\ AppendedTo(a, <<>>, x)
    <3>1. <<>> \in Seq({x}) /\ Len(<<>>) = 0 /\ Len(<<>>) <= MaxLines BY EmptySeq, ConsoleAssumption
    <3> QED BY <1>10, <3>1, AppendedIs
  <2>2. Len(<<>>) = 0 /\ MaxLines # 0 BY ConsoleAssumption
  <2>3. Len(a) = 1 /\ a[1] = x BY <2>1, <2>2 DEF AppendedTo
  <2> QED BY <2>1, <2>3
<1> QED BY <1>6, <1>8, <1>9, <1>13, <1>14

LEMMA NowFields ==
  /\ Output!Now.lines = lines /\ Output!Now.partial = partial
  /\ Output!Now.chips = chips /\ Output!Now.reported = reported
BY DEF Output!Now

\* The console d shows w, which is s and a program's marks after it.
PrintedIs(w, s, text, c, d) ==
  /\ w \in Seq(Marks) /\ Len(w) = Len(s) + Len(text)
  /\ \A i \in 1..Len(s) : w[i] = s[i]
  /\ \A i \in (Len(s) + 1)..Len(w) : w[i] \in {1, 2} \X (Output!Words \cup {NL})
  /\ Agrees(d, ReadIs(w)) /\ (Follows(c) => Follows(d))

\* Whatever is printed is written as it is read, from where the reading stood.
LEMMA PrintedFits ==
  ASSUME NEW s \in Seq(Marks), NEW text \in Seq(Output!Words \cup {NL}), NEW fd \in {1, 2},
         NEW v, v = [i \in 1..Len(text) |-> <<fd, text[i]>>], NEW w, w = s \o v,
         NEW c, Agrees(c, ReadIs(s)), NEW d, d = Output!Written(c, text, fd)
  PROVE  PrintedIs(w, s, text, c, d)
<1>1. PICK n \in Nat, k \in Nat : n = Len(s) /\ k = Len(text) BY LenProperties
<1>2. ASSUME NEW i \in 1..k PROVE <<fd, text[i]>> \in {1, 2} \X (Output!Words \cup {NL})
  <2>1. text[i] \in Output!Words \cup {NL} BY <1>1, ElementOfSeq
  <2> QED BY <2>1
<1>3. v \in Seq(Marks) /\ Len(v) = k /\ \A i \in 1..k : v[i] = <<fd, text[i]>>
  <2>1. \A i \in 1..k : <<fd, text[i]>> \in Marks BY <1>2 DEF Marks
  <2>2. v = [i \in 1..k |-> <<fd, text[i]>>] BY <1>1
  <2> QED BY <2>1, <2>2
<1>4. /\ w \in Seq(Marks) /\ Len(w) = n + k /\ \A i \in 1..n : w[i] = s[i]
      /\ \A i \in (n + 1)..(n + k) : w[i] = v[i - n]
  <2>1. w \in Seq(Marks) /\ Len(w) = Len(s) + Len(v)
        /\ \A i \in 1..(Len(s) + Len(v)) : w[i] = IF i <= Len(s) THEN s[i] ELSE v[i - Len(s)]
    BY <1>3, ConcatProperties
  <2> QED BY <1>1, <1>3, <2>1
<1>5. ASSUME NEW i \in (n + 1)..(n + k) PROVE w[i] \in {1, 2} \X (Output!Words \cup {NL})
  <2>0. i - n \in 1..k BY <1>1
  <2>1. PICK j \in 1..k : j = i - n BY <2>0
  <2>2. w[i] = <<fd, text[j]>> BY <1>3, <1>4, <2>1
  <2> QED BY <1>2, <2>2
<1>6. PICK g : g = Output!Reads(w) OBVIOUS
<1>7. g \in [0..(n + k) -> Reading] /\ \A i \in 1..(n + k) : g[i] = Output!ReadMark(g[i - 1], w[i])
  BY <1>4, <1>6, ReadsAre DEF IsReadOf
<1>8. g[n] = ReadIs(s)
  <2>1. Len(s) <= Len(w) /\ \A i \in 1..Len(s) : w[i] = s[i] BY <1>1, <1>4
  <2> QED BY <1>1, <1>4, <1>6, <2>1, ReadsOn DEF ReadIs
<1>9. PICK u : u = [i \in 0..k |-> g[n + i]] OBVIOUS
<1>10. \A i \in 0..k : u[i] = g[n + i] /\ u[i] \in Reading
  <2>1. ASSUME NEW i \in 0..k PROVE u[i] = g[n + i] /\ u[i] \in Reading
    <3>1. n + i \in 0..(n + k) BY <1>1
    <3> QED BY <1>7, <1>9, <3>1
  <2> QED BY <2>1
<1>11. IsWay(u, text, fd)
  <2>1. ASSUME NEW j \in 1..k PROVE u[j] = Output!ReadMark(u[j - 1], <<fd, text[j]>>)
    <3>1. j \in 0..k /\ j - 1 \in 0..k BY <1>1
    <3>2. PICK i \in (n + 1)..(n + k) : i = n + j BY <1>1
    <3>3. i \in 1..(n + k) /\ i - 1 = n + (j - 1) /\ i - n = j BY <1>1, <3>2
    <3>4. g[i] = Output!ReadMark(g[i - 1], w[i]) BY <1>7, <3>3
    <3>5. w[i] = <<fd, text[j]>> BY <1>3, <1>4, <3>3
    <3>6. u[j] = g[i] /\ u[j - 1] = g[i - 1] BY <1>10, <3>1, <3>2, <3>3
    <3> QED BY <3>4, <3>5, <3>6
  <2> QED BY <1>1, <2>1 DEF IsWay
<1>12. u[0] = ReadIs(s) /\ u[k] = ReadIs(w)
  <2>1. 0 \in 0..k /\ k \in 0..k /\ n + 0 = n BY <1>1
  <2>2. u[0] = g[n + 0] /\ u[k] = g[n + k] BY <1>10, <2>1
  <2> QED BY <1>4, <1>6, <1>8, <2>1, <2>2 DEF ReadIs
<1>13. Agrees(d, u[Len(text)]) /\ (Follows(c) => Follows(d))
  <2>1. Agrees(c, u[0]) /\ \A i \in 0..Len(text) : u[i] \in Reading BY <1>1, <1>10, <1>12
  <2> QED BY <1>11, <2>1, WrittenFits
<1> QED BY <1>1, <1>4, <1>5, <1>12, <1>13 DEF PrintedIs

-----------------------------------------------------------------------------
(* What is shown and what was said, and the steps that change both.        *)

GreetsFirst(s) == \A i \in 2..Len(s) : s[i] # Output!Says("greeting")
Holds(c, s) == s \in Seq(Marks) /\ GreetsFirst(s) /\ Agrees(c, ReadIs(s))

LEMMA FitsCons == ASSUME NEW c, NEW s, Holds(c, s) PROVE c \in Cons /\ c.chips \in Chips /\ c.reported \in Seq(Texts)
<1>1. c \in Cons BY DEF Holds, Agrees
<1> QED BY <1>1, FieldsOf

\* What is said after something is the greeting only in an empty console.
LEMMA NotedKeeps ==
  ASSUME NEW c, NEW s, Holds(c, s), NEW what \in {"greeting", "command", "end", "hint"}, NEW kind \in Kinds,
         what = "greeting" => s = <<>>,
         NEW d, d = Output!Noted(c, what, kind), NEW v, v = Append(s, Output!Says(what))
  PROVE  Holds(d, v) /\ (Follows(c) => Follows(d))
<1>1. s \in Seq(Marks) /\ GreetsFirst(s) /\ Agrees(c, ReadIs(s)) BY DEF Holds
<1>2. PICK n \in Nat : n = Len(s) BY <1>1, LenProperties
<1>3. PICK m \in Marks : m = Output!Says(what) /\ (what # "greeting" => m # Output!Says("greeting")) BY SaysIn
<1>4. v = Append(s, m) BY <1>3
<1>5. v \in Seq(Marks) /\ Len(v) = n + 1 /\ v[n + 1] = m /\ \A i \in 1..n : v[i] = s[i]
  BY <1>1, <1>2, <1>4, AppendProperties
<1>6. ASSUME NEW i \in 2..Len(v) PROVE v[i] # Output!Says("greeting")
  <2>1. CASE i = n + 1
    <3>1. n # 0 BY <1>2, <2>1
    <3>2. s # <<>> BY <1>2, <3>1, EmptySeq
    <3> QED BY <1>3, <1>5, <2>1, <3>2
  <2>2. CASE i # n + 1
    <3>1. i \in 2..n /\ i \in 1..n BY <1>2, <1>5, <2>2
    <3> QED BY <1>1, <1>2, <1>5, <3>1 DEF GreetsFirst
  <2> QED BY <2>1, <2>2
<1>7. PICK r : r = ReadIs(s) OBVIOUS
<1>8. ReadIs(v) = Output!ReadMark(r, m) BY <1>1, <1>4, <1>7, ReadOne
<1>9. Agrees(d, Output!ReadMark(r, m)) /\ (Follows(c) => Follows(d))
  <2>1. Agrees(c, r) BY <1>1, <1>7
  <2> QED BY <1>3, <2>1, NoteFits
<1>10. GreetsFirst(v) BY <1>6 DEF GreetsFirst
<1> QED BY <1>5, <1>8, <1>9, <1>10 DEF Holds

LEMMA WrittenKeeps ==
  ASSUME NEW c, NEW s, Holds(c, s), NEW text \in Output!Pieces, NEW fd \in {1, 2},
         NEW d, d = Output!Written(c, text, fd),
         NEW v, v = s \o [i \in 1..Len(text) |-> <<fd, text[i]>>]
  PROVE  Holds(d, v) /\ (Follows(c) => Follows(d))
<1>1. s \in Seq(Marks) /\ GreetsFirst(s) /\ Agrees(c, ReadIs(s)) BY DEF Holds
<1>2. text \in Seq(Output!Words \cup {NL})
  <2>1. PICK n \in 1..MaxPiece : text \in [1..n -> Output!Words \cup {NL}] BY DEF Output!Pieces
  <2>2. n \in Nat BY <2>1, ConsoleAssumption
  <2> QED BY <2>1, <2>2
<1>3. PICK p : p = [i \in 1..Len(text) |-> <<fd, text[i]>>] OBVIOUS
<1>4. v = s \o p BY <1>3
<1>5. PrintedIs(v, s, text, c, d) BY <1>1, <1>2, <1>3, <1>4, PrintedFits
<1>6. /\ v \in Seq(Marks) /\ Len(v) = Len(s) + Len(text)
      /\ \A i \in 1..Len(s) : v[i] = s[i]
      /\ \A i \in (Len(s) + 1)..Len(v) : v[i] \in {1, 2} \X (Output!Words \cup {NL})
      /\ Agrees(d, ReadIs(v)) /\ (Follows(c) => Follows(d))
  BY <1>5 DEF PrintedIs
<1>7. PICK n \in Nat, k \in Nat : n = Len(s) /\ k = Len(v) BY <1>1, <1>6, LenProperties
<1>8. ASSUME NEW i \in 2..Len(v) PROVE v[i] # Output!Says("greeting")
  <2>1. CASE i <= n
    <3>1. i \in 2..Len(s) /\ i \in 1..Len(s) BY <1>7, <2>1
    <3> QED BY <1>1, <1>6, <3>1 DEF GreetsFirst
  <2>2. CASE ~(i <= n)
    <3>1. i \in (Len(s) + 1)..Len(v) BY <1>7, <2>2
    <3>2. v[i] \in {1, 2} \X (Output!Words \cup {NL}) BY <1>6, <3>1
    <3>3. v[i][1] # 0 BY <3>2
    <3>4. Output!Says("greeting")[1] = 0 BY DEF Output!Says
    <3> QED BY <3>3, <3>4
  <2> QED BY <2>1, <2>2
<1>9. GreetsFirst(v) BY <1>8 DEF GreetsFirst
<1> QED BY <1>6, <1>9 DEF Holds

\* Other chips fit as well.
LEMMA ChipsKeep ==
  ASSUME NEW c, NEW s, Holds(c, s), NEW marked \in Chips, NEW d, d = [c EXCEPT !.chips = marked]
  PROVE  Holds(d, s) /\ d.chips = marked /\ d.reported = c.reported
<1>1. c \in Cons BY FitsCons
<1>2. /\ d \in Cons /\ d.lines = c.lines /\ d.partial = c.partial
      /\ d.reported = c.reported /\ d.chips = marked
  BY <1>1 DEF Cons
<1>3. Agrees(d, ReadIs(s)) BY <1>2 DEF Holds, Agrees
<1> QED BY <1>2, <1>3 DEF Holds

LEMMA FreshKeeps == ASSUME NEW marked \in Chips PROVE Holds(Fresh(marked), <<>>)
<1>1. PICK s \in Seq(Marks) : s = <<>> BY EmptySeq
<1>2. GreetsFirst(s)
  <2>1. \A i \in 2..Len(s) : FALSE BY <1>1, EmptySeq
  <2> QED BY <2>1 DEF GreetsFirst
<1>3. Agrees(Fresh(marked), ReadIs(s)) BY <1>1, FreshFits, ReadNone
<1> QED BY <1>1, <1>2, <1>3 DEF Holds

LEMMA ClearedIs == ASSUME NEW c, c = Output!Now PROVE Output!Cleared(c) = Fresh(c.chips)
<1>1. PICK l, p, h, q : c = [lines |-> l, partial |-> p, chips |-> h, reported |-> q] BY DEF Output!Now
<1>2. PICK e : e = <<>> OBVIOUS
<1>3. PICK b : b = [c EXCEPT !.lines = e] OBVIOUS
<1>4. b = [lines |-> e, partial |-> p, chips |-> h, reported |-> q] BY <1>1, <1>3
<1>5. PICK f : f = [b EXCEPT !.partial = None] OBVIOUS
<1>6. f = [lines |-> e, partial |-> None, chips |-> h, reported |-> q] BY <1>4, <1>5
<1>7. [f EXCEPT !.reported = e] = [lines |-> e, partial |-> None, chips |-> h, reported |-> e] BY <1>6
<1>8. Output!Cleared(c) = [f EXCEPT !.reported = e] BY <1>2, <1>3, <1>5 DEF Output!Cleared
<1>9. c.chips = h BY <1>1
<1> QED BY <1>2, <1>7, <1>8, <1>9, Zenon DEF Fresh

LEMMA SetIs == ASSUME NEW d \in Cons, Output!Set(d) PROVE Output!Now' = d
BY DEF Output!Set, Output!Now, Cons

\* The chips go on following the lines, or begin anew.
LEMMA FollowsStill ==
  ASSUME NEW d, Output!Now' = d, basis' = basis, Follows(d) PROVE Follows(Output!Now)'
BY DEF Follows

LEMMA FollowsAnew ==
  ASSUME NEW d \in Cons, Output!Now' = d, Output!Marked(d) PROVE Follows(Output!Now)'
<1>1. basis'.chips = d.chips /\ basis'.after = Len(d.reported) BY DEF Output!Marked
<1>2. PICK n \in Nat : n = Len(d.reported) BY FieldsOf, LenProperties
<1>3. n \in 0..n /\ \A k \in (n + 1)..n : FALSE BY <1>2
<1> QED BY <1>1, <1>2, <1>3 DEF Follows

\* The inductive invariant: the console fits what is read of all that was said, and
\* its chips follow what it reported.
PaneFlags ==
  /\ spec \in BOOLEAN /\ running \in BOOLEAN /\ cut \in BOOLEAN
  /\ busy \in {None, "test", "only", "run", "build"}
  /\ running => busy \in {"test", "only", "run"}
  /\ cut => busy = None
ConsoleIInv ==
  /\ PaneFlags /\ Holds(Output!Now, said) /\ Follows(Output!Now)
  /\ Output!StopClears

NoneRun(c) == \A t \in Tests : c.chips[t] # "running"

LEMMA MarksIn ==
  /\ Output!NoChips \in Chips /\ (\A t \in Tests : Output!NoChips[t] # "running")
  /\ \A old \in Chips, t \in Tests : [old EXCEPT ![t] = "running"] \in Chips
  /\ \A old \in Chips : Output!NoneRuns(old) \in Chips /\ \A t \in Tests : Output!NoneRuns(old)[t] # "running"
<1>1. None # "running" BY ConsoleAssumption
<1> QED BY <1>1 DEF Chips, Output!NoChips, Output!NoneRuns

LEMMA ConsoleInit == Output!Init => ConsoleIInv
<1> SUFFICES ASSUME Output!Init PROVE ConsoleIInv OBVIOUS
<1>1. PICK marked \in Chips : marked = Output!NoChips BY MarksIn
<1>2. /\ partial = None /\ chips = marked /\ reported = <<>> /\ basis = [chips |-> marked, after |-> 0]
      /\ PaneFlags /\ Output!StopClears
  BY <1>1, ConsoleAssumption, MarksIn DEF Output!Init, PaneFlags, Output!StopClears
<1>3. Holds(Output!Now, said)
  <2>1. CASE Lazy
    <3>1. lines = <<>> /\ said = <<>> BY <2>1 DEF Output!Init
    <3>2. Output!Now = Fresh(marked) BY <1>2, <3>1 DEF Output!Now, Fresh
    <3> QED BY <3>1, <3>2, FreshKeeps
  <2>2. CASE ~Lazy
    <3>1. lines = <<Output!NoteLine("greeting", "dim")>> /\ said = <<Output!Says("greeting")>> BY <2>2 DEF Output!Init
    <3>2. PICK d, v : d = Output!Noted(Fresh(marked), "greeting", "dim") /\ v = <<Output!Says("greeting")>> OBVIOUS
    <3>3. "dim" \in Kinds BY DEF Kinds
    <3>4. /\ Agrees(d, ReadIs(v))
          /\ d = [lines |-> <<Output!NoteLine("greeting", "dim")>>, partial |-> None, chips |-> marked, reported |-> <<>>]
      BY <3>2, <3>3, FreshNote
    <3>5. Output!Now = d /\ said = v BY <1>2, <3>1, <3>2, <3>4 DEF Output!Now
    <3>6. PICK m \in Marks : m = Output!Says("greeting") BY SaysIn
    <3>7. v \in Seq(Marks) /\ \A i \in 2..Len(v) : FALSE BY <3>2, <3>6
    <3>8. GreetsFirst(v) BY <3>7 DEF GreetsFirst
    <3>9. Holds(d, v) BY <3>4, <3>7, <3>8 DEF Holds
    <3> QED BY <3>5, <3>9
  <2> QED BY <2>1, <2>2
<1>4. Follows(Output!Now)
  <2>1. PICK c : c = Output!Now OBVIOUS
  <2>2. c.chips = marked /\ c.reported = <<>> BY <1>2, <2>1, NowFields
  <2>3. Len(c.reported) = 0 BY <2>2, EmptySeq
  <2>4. basis.after = 0 /\ basis.chips = marked BY <1>2
  <2>5. 0 \in 0..0 /\ \A k \in (0 + 1)..0 : FALSE OBVIOUS
  <2> QED BY <2>1, <2>2, <2>3, <2>4, <2>5 DEF Follows
<1> QED BY <1>2, <1>3, <1>4 DEF ConsoleIInv

\* A run that is over leaves a console that fits, and chips that follow it or that
\* were set while no test runs.
LEMMA OverKeeps ==
  ASSUME ConsoleIInv, busy # None, NEW c, NEW s, Holds(c, s), Follows(c), Output!Over(c, s), UNCHANGED <<cut, basis>>
  PROVE  ConsoleIInv'
<1>1. Output!Now' = c BY FitsCons, SetIs DEF Output!Over
<1>2. said' = s /\ busy' = None /\ running' = FALSE /\ spec' = spec /\ cut = FALSE /\ cut' = FALSE
  BY DEF Output!Over, ConsoleIInv, PaneFlags
<1>3. Holds(Output!Now', said') BY <1>1, <1>2
<1>4. Follows(Output!Now)' BY <1>1, FollowsStill
<1>5. PaneFlags' BY <1>2 DEF ConsoleIInv, PaneFlags
<1>6. Output!StopClears' BY <1>2 DEF Output!StopClears
<1> QED BY <1>3, <1>4, <1>5, <1>6 DEF ConsoleIInv

LEMMA OverCut ==
  ASSUME ConsoleIInv, NEW c, NEW s, Holds(c, s), NoneRun(c), Output!Over(c, s), Output!Marked(c), cut' = TRUE
  PROVE  ConsoleIInv'
<1>1. c \in Cons BY FitsCons
<1>2. Output!Now' = c BY <1>1, SetIs DEF Output!Over
<1>3. said' = s /\ busy' = None /\ running' = FALSE /\ spec' = spec BY DEF Output!Over
<1>4. Holds(Output!Now', said') BY <1>2, <1>3
<1>5. Follows(Output!Now)' BY <1>1, <1>2, FollowsAnew
<1>6. PaneFlags' BY <1>3 DEF ConsoleIInv, PaneFlags
<1>7. Output!StopClears'
  <2>1. chips' = c.chips BY DEF Output!Over, Output!Set
  <2> QED BY <2>1 DEF Output!StopClears, NoneRun
<1> QED BY <1>4, <1>5, <1>6, <1>7 DEF ConsoleIInv

LEMMA ConsoleSpecComes == ConsoleIInv /\ Output!SpecComes => ConsoleIInv'
<1> SUFFICES ASSUME ConsoleIInv, Output!SpecComes PROVE ConsoleIInv' OBVIOUS
<1>1. spec' = TRUE /\ UNCHANGED <<busy, running, cut, basis>> BY DEF Output!SpecComes
<1>2. PICK c, s : c = Output!Now /\ s = said OBVIOUS
<1>3. Holds(c, s) /\ Follows(c) BY <1>2 DEF ConsoleIInv
<1>4. PaneFlags' BY <1>1 DEF ConsoleIInv, PaneFlags
<1>5. CASE Output!Empty
  <2>1. PICK d, v : d = Output!Noted(c, "greeting", "dim") /\ v = Append(s, Output!Says("greeting")) OBVIOUS
  <2>2. Output!Set(d) /\ said' = v BY <1>2, <1>5, <2>1 DEF Output!SpecComes, Output!Greet
  <2>3. c.lines = <<>> BY <1>2, <1>5 DEF Output!Empty, Output!Now
  <2>4. PICK r : r = ReadIs(s) OBVIOUS
  <2>5. r \in Reading /\ s \in Seq(Marks) /\ c.partial = r.open /\ Shows(<<>>, Output!AllLines(r), r.open # None)
    BY <1>3, <2>3, <2>4 DEF Holds, Agrees
  <2>6. s = <<>>
    <3>1. PICK all \in Seq(Line) : all = Output!AllLines(r) BY <2>5, ReadingOf
    <3>2. 0 = IF Len(all) > MaxLines THEN MaxLines ELSE Len(all) BY <2>5, <3>1, EmptySeq DEF Shows
    <3>3. Len(all) = 0
      <4>1. Len(all) \in Nat BY LenProperties
      <4> QED BY <3>2, <4>1, ConsoleAssumption
    <3>4. all = <<>> BY <3>3, EmptySeq
    <3> QED BY <2>4, <2>5, <3>1, <3>4, ReadIn
  <2>7. "dim" \in Kinds BY DEF Kinds
  <2>8. Holds(d, v) /\ Follows(d)
    <3>1. PICK what \in {"greeting", "command", "end", "hint"}, kind \in Kinds : what = "greeting" /\ kind = "dim" BY <2>7
    <3>2. Holds(c, s) /\ Follows(c) BY <1>3
    <3>3. d = Output!Noted(c, what, kind) /\ v = Append(s, Output!Says(what)) BY <2>1, <3>1
    <3> QED BY <2>6, <3>2, <3>3, NotedKeeps
  <2>9. Output!Now' = d BY <2>2, <2>8, FitsCons, SetIs
  <2>10. Holds(Output!Now', said') BY <2>2, <2>8, <2>9
  <2>11. Follows(Output!Now)' BY <1>1, <2>8, <2>9, FollowsStill
  <2>12. chips' = chips
    <3>1. c.partial = None
      <4>1. Output!AllLines(r) = <<>> \/ r.open = None
        <5>1. ReadIs(<<>>) = Unread BY ReadNone
        <5> QED BY <2>4, <2>6, <5>1 DEF Unread
      <4>2. r.open = None
        <5>1. ReadIs(<<>>) = Unread BY ReadNone
        <5> QED BY <2>4, <2>6, <5>1 DEF Unread
      <4> QED BY <2>5, <4>2
    <3>2. PICK e : e = Output!Appended(c.lines, Output!NoteLine("greeting", "dim")) OBVIOUS
    <3>3. d = [c EXCEPT !.lines = e] BY <2>1, <3>1, <3>2 DEF Output!Noted, Output!EndPartial
    <3>4. c \in Cons BY <1>3, FitsCons
    <3>5. d.chips = c.chips BY <3>3, <3>4 DEF Cons
    <3> QED BY <1>2, <2>2, <3>5, NowFields DEF Output!Set
  <2>13. Output!StopClears' BY <1>1, <2>12 DEF ConsoleIInv, Output!StopClears
  <2> QED BY <1>4, <2>10, <2>11, <2>13 DEF ConsoleIInv
<1>6. CASE ~Output!Empty
  <2>1. UNCHANGED <<lines, partial, chips, reported, said>> BY <1>6 DEF Output!SpecComes, Output!Greet
  <2>2. Output!Now' = c BY <1>2, <2>1 DEF Output!Now
  <2>3. Holds(Output!Now', said') BY <1>2, <1>3, <2>1, <2>2
  <2>4. Follows(Output!Now)' BY <1>1, <1>3, <2>2, FollowsStill
  <2>5. Output!StopClears' BY <1>1, <2>1 DEF ConsoleIInv, Output!StopClears
  <2> QED BY <1>4, <2>3, <2>4, <2>5 DEF ConsoleIInv
<1> QED BY <1>5, <1>6

LEMMA ConsoleClear == ConsoleIInv /\ Output!Clear => ConsoleIInv'
<1> SUFFICES ASSUME ConsoleIInv, Output!Clear PROVE ConsoleIInv' OBVIOUS
<1>1. PICK c, s : c = Output!Now /\ s = said OBVIOUS
<1>2. Holds(c, s) BY <1>1 DEF ConsoleIInv
<1>3. PICK d : d = Fresh(c.chips) OBVIOUS
<1>4. Output!Set(d) /\ Output!Marked(d) /\ said' = <<>> /\ UNCHANGED <<spec, busy, running, cut>>
  BY <1>1, <1>3, ClearedIs DEF Output!Clear, Output!pane
<1>5. Holds(d, <<>>) BY <1>2, <1>3, FitsCons, FreshKeeps
<1>6. d \in Cons BY <1>5, FitsCons
<1>7. Output!Now' = d BY <1>4, <1>6, SetIs
<1>8. Holds(Output!Now', said') BY <1>4, <1>5, <1>7
<1>9. Follows(Output!Now)' BY <1>4, <1>6, <1>7, FollowsAnew
<1>10. chips' = chips BY <1>1, <1>3, <1>4, NowFields DEF Output!Set, Fresh
<1>11. PaneFlags' /\ Output!StopClears' BY <1>4, <1>10 DEF ConsoleIInv, PaneFlags, Output!StopClears
<1> QED BY <1>8, <1>9, <1>11 DEF ConsoleIInv

LEMMA ConsoleReset == ConsoleIInv /\ Output!ResetTests => ConsoleIInv'
<1> SUFFICES ASSUME ConsoleIInv, Output!ResetTests PROVE ConsoleIInv' OBVIOUS
<1>1. PICK c, s : c = Output!Now /\ s = said OBVIOUS
<1>2. Holds(c, s) BY <1>1 DEF ConsoleIInv
<1>3. PICK marked \in Chips : marked = Output!NoChips /\ \A t \in Tests : marked[t] # "running" BY MarksIn
<1>4. PICK d : d = [c EXCEPT !.chips = marked] OBVIOUS
<1>5. Holds(d, s) /\ d \in Cons BY <1>2, <1>4, ChipsKeep, FitsCons
<1>6. /\ chips' = marked /\ UNCHANGED <<lines, partial, reported, spec, busy, running, cut, said>>
      /\ Output!Marked(d)
  BY <1>1, <1>3, <1>4 DEF Output!ResetTests, Output!pane
<1>7. Output!Now' = d BY <1>1, <1>4, <1>6 DEF Output!Now
<1>8. Holds(Output!Now', said') BY <1>1, <1>5, <1>6, <1>7
<1>9. Follows(Output!Now)' BY <1>5, <1>6, <1>7, FollowsAnew
<1>10. PaneFlags' /\ Output!StopClears' BY <1>3, <1>6 DEF ConsoleIInv, PaneFlags, Output!StopClears
<1> QED BY <1>8, <1>9, <1>10 DEF ConsoleIInv

LEMMA ConsoleBegins ==
  ASSUME ConsoleIInv, NEW kind \in {"test", "only", "run", "build"}, NEW marked \in Chips, Output!Begins(kind, marked)
  PROVE  ConsoleIInv'
<1>1. PICK c, s : c = Output!Now /\ s = said OBVIOUS
<1>2. Holds(c, s) BY <1>1 DEF ConsoleIInv
<1>3. PICK b, v : b = Fresh(c.chips) /\ v = Append(<<>>, Output!Says("command")) OBVIOUS
<1>4. PICK f, d : f = Output!Noted(b, "command", "cmd") /\ d = [f EXCEPT !.chips = marked] OBVIOUS
<1>5. Output!Cleared(c) = b BY <1>1, <1>3, ClearedIs
<1>6. /\ Output!Set(d) /\ Output!Marked(d) /\ said' = <<Output!Says("command")>>
      /\ busy = None /\ busy' = kind /\ cut' = FALSE /\ UNCHANGED <<spec, running>>
  BY <1>1, <1>4, <1>5 DEF Output!Begins
<1>7. Holds(f, v)
  <2>1. Holds(b, <<>>) BY <1>2, <1>3, FitsCons, FreshKeeps
  <2>2. "cmd" \in Kinds BY DEF Kinds
  <2> QED BY <1>3, <1>4, <2>1, <2>2, NotedKeeps
<1>8. Holds(d, v) /\ d \in Cons BY <1>4, <1>7, ChipsKeep, FitsCons
<1>9. said' = v
  <2>1. PICK m : m = Output!Says("command") OBVIOUS
  <2>2. Append(<<>>, m) = <<m>> OBVIOUS
  <2> QED BY <1>3, <1>6, <2>1, <2>2
<1>10. Output!Now' = d BY <1>6, <1>8, SetIs
<1>11. Holds(Output!Now', said') BY <1>8, <1>9, <1>10
<1>12. Follows(Output!Now)' BY <1>6, <1>8, <1>10, FollowsAnew
<1>13. PaneFlags'
  <2>1. running = FALSE BY <1>6, ConsoleAssumption DEF ConsoleIInv, PaneFlags
  <2> QED BY <1>6, <2>1 DEF ConsoleIInv, PaneFlags
<1>14. Output!StopClears' BY <1>6 DEF Output!StopClears
<1> QED BY <1>11, <1>12, <1>13, <1>14 DEF ConsoleIInv

LEMMA ConsoleStartRun == ConsoleIInv /\ Output!StartRun => ConsoleIInv'
<1> SUFFICES ASSUME ConsoleIInv, Output!StartRun PROVE ConsoleIInv' OBVIOUS
<1>1. PICK c, s : c = Output!Now /\ s = said OBVIOUS
<1>2. Holds(c, s) BY <1>1 DEF ConsoleIInv
<1>3. PICK old \in Chips : old = chips BY <1>1, <1>2, FitsCons, NowFields
<1>4. CASE Output!Begins("test", Output!NoChips) BY <1>4, MarksIn, ConsoleBegins
<1>5. ASSUME NEW only \in Tests, Output!Begins("only", [chips EXCEPT ![only] = "running"]) PROVE ConsoleIInv'
  <2>1. PICK marked \in Chips : marked = [old EXCEPT ![only] = "running"] BY MarksIn
  <2>2. Output!Begins("only", marked) BY <1>3, <1>5, <2>1
  <2> QED BY <2>2, ConsoleBegins
<1>6. ASSUME NEW kind \in {"run", "build"}, Output!Begins(kind, chips) PROVE ConsoleIInv'
  <2>1. Output!Begins(kind, old) BY <1>3, <1>6
  <2> QED BY <2>1, ConsoleBegins
<1> QED BY <1>4, <1>5, <1>6 DEF Output!StartRun

LEMMA ConsoleProgramStarts == ConsoleIInv /\ Output!ProgramStarts => ConsoleIInv'
<1> SUFFICES ASSUME ConsoleIInv, Output!ProgramStarts PROVE ConsoleIInv' OBVIOUS
<1>1. /\ UNCHANGED <<lines, partial, chips, spec, busy, said, reported, cut, basis>>
      /\ running' = TRUE /\ busy \in {"test", "only", "run"}
  BY DEF Output!ProgramStarts, Output!history
<1>2. PICK c : c = Output!Now OBVIOUS
<1>3. Output!Now' = c BY <1>1, <1>2 DEF Output!Now
<1>4. Holds(Output!Now', said') BY <1>1, <1>2, <1>3 DEF ConsoleIInv
<1>5. Follows(Output!Now)'
  <2>1. Follows(c) BY <1>2 DEF ConsoleIInv
  <2> QED BY <1>1, <1>3, <2>1, FollowsStill
<1>6. PaneFlags' /\ Output!StopClears' BY <1>1 DEF ConsoleIInv, PaneFlags, Output!StopClears
<1> QED BY <1>4, <1>5, <1>6 DEF ConsoleIInv

LEMMA ConsolePrints == ConsoleIInv /\ Output!Prints => ConsoleIInv'
<1> SUFFICES ASSUME ConsoleIInv, Output!Prints PROVE ConsoleIInv' OBVIOUS
<1>1. PICK text \in Output!Pieces, fd \in {1, 2} :
        /\ running /\ Output!Set(Output!Written(Output!Now, text, fd))
        /\ said' = said \o [i \in 1..Len(text) |-> <<fd, text[i]>>]
        /\ UNCHANGED <<spec, busy, running, cut, basis>>
  BY DEF Output!Prints, Output!Printed, Output!pane
<1>2. PICK c, s : c = Output!Now /\ s = said OBVIOUS
<1>3. Holds(c, s) /\ Follows(c) BY <1>2 DEF ConsoleIInv
<1>4. PICK d, v : d = Output!Written(c, text, fd) /\ v = s \o [i \in 1..Len(text) |-> <<fd, text[i]>>] OBVIOUS
<1>5. Holds(d, v) /\ Follows(d) BY <1>3, <1>4, WrittenKeeps
<1>6. Output!Set(d) /\ said' = v BY <1>1, <1>2, <1>4
<1>7. Output!Now' = d BY <1>5, <1>6, FitsCons, SetIs
<1>8. Holds(Output!Now', said') BY <1>5, <1>6, <1>7
<1>9. Follows(Output!Now)' BY <1>1, <1>5, <1>7, FollowsStill
<1>10. PaneFlags' BY <1>1 DEF ConsoleIInv, PaneFlags
<1>11. Output!StopClears' BY <1>1, ConsoleAssumption DEF ConsoleIInv, PaneFlags, Output!StopClears
<1> QED BY <1>8, <1>9, <1>10, <1>11 DEF ConsoleIInv

LEMMA ConsoleBuildFails == ConsoleIInv /\ Output!BuildFails => ConsoleIInv'
<1> SUFFICES ASSUME ConsoleIInv, Output!BuildFails PROVE ConsoleIInv' OBVIOUS
<1>1. PICK text \in Output!Pieces :
        /\ busy \in {"run", "build"} /\ UNCHANGED <<cut, basis>>
        /\ Output!Over(Output!Written(Output!Now, text, 2), said \o [i \in 1..Len(text) |-> <<2, text[i]>>])
  BY DEF Output!BuildFails, Output!Printed
<1>2. PICK c, s : c = Output!Now /\ s = said OBVIOUS
<1>3. Holds(c, s) /\ Follows(c) BY <1>2 DEF ConsoleIInv
<1>4. PICK fd \in {1, 2} : fd = 2 OBVIOUS
<1>5. PICK d, v : d = Output!Written(c, text, fd) /\ v = s \o [i \in 1..Len(text) |-> <<fd, text[i]>>] OBVIOUS
<1>6. Holds(d, v) /\ Follows(d) BY <1>3, <1>5, WrittenKeeps
<1>7. Output!Over(d, v) BY <1>1, <1>2, <1>4, <1>5
<1>8. busy # None BY <1>1, ConsoleAssumption
<1> QED BY <1>1, <1>6, <1>7, <1>8, OverKeeps

LEMMA ConsoleTestsUnbuilt == ConsoleIInv /\ Output!TestsUnbuilt => ConsoleIInv'
<1> SUFFICES ASSUME ConsoleIInv, Output!TestsUnbuilt PROVE ConsoleIInv' OBVIOUS
<1>1. PICK c, s, marked : c = Output!Now /\ s = said /\ marked = Output!NoChips OBVIOUS
<1>2. Holds(c, s) BY <1>1 DEF ConsoleIInv
<1>3. PICK text \in Output!Pieces :
        LET d == [Output!Noted(Output!Written(c, text, 2), "end", "fail") EXCEPT !.chips = marked]
        IN  /\ Output!Over(d, Append(s \o [i \in 1..Len(text) |-> <<2, text[i]>>], Output!Says("end")))
            /\ Output!Marked(d) /\ cut' = TRUE
  BY <1>1 DEF Output!TestsUnbuilt, Output!Printed
<1>4. PICK fd \in {1, 2} : fd = 2 OBVIOUS
<1>5. PICK b, v : b = Output!Written(c, text, fd) /\ v = s \o [i \in 1..Len(text) |-> <<fd, text[i]>>] OBVIOUS
<1>6. PICK f, w, d : f = Output!Noted(b, "end", "fail") /\ w = Append(v, Output!Says("end"))
                     /\ d = [f EXCEPT !.chips = marked]
  OBVIOUS
<1>7. Holds(b, v) BY <1>2, <1>5, WrittenKeeps
<1>8. Holds(f, w)
  <2>1. "fail" \in Kinds BY DEF Kinds
  <2> QED BY <1>6, <1>7, <2>1, NotedKeeps
<1>9. marked \in Chips /\ \A t \in Tests : marked[t] # "running" BY <1>1, MarksIn
<1>10. Holds(d, w) /\ NoneRun(d) BY <1>6, <1>8, <1>9, ChipsKeep DEF NoneRun
<1>11. Output!Over(d, w) /\ Output!Marked(d) /\ cut' = TRUE BY <1>3, <1>5, <1>6, <1>4
<1> QED BY <1>10, <1>11, OverCut

LEMMA ConsolePasses == ConsoleIInv /\ Output!Passes => ConsoleIInv'
<1> SUFFICES ASSUME ConsoleIInv, Output!Passes PROVE ConsoleIInv' OBVIOUS
<1>1. PICK c, s : c = Output!Now /\ s = said OBVIOUS
<1>2. Holds(c, s) /\ Follows(c) BY <1>1 DEF ConsoleIInv
<1>3. PICK f, v : f = Output!Noted(c, "end", "pass") /\ v = Append(s, Output!Says("end")) OBVIOUS
<1>4. PICK d, w : d = Output!Noted(f, "hint", "dim") /\ w = Append(v, Output!Says("hint")) OBVIOUS
<1>5. {"pass", "dim"} \subseteq Kinds BY DEF Kinds
<1>6. Holds(f, v) /\ Follows(f) BY <1>2, <1>3, <1>5, NotedKeeps
<1>7. Holds(d, w) /\ Follows(d)
  <2>1. PICK what \in {"greeting", "command", "end", "hint"}, kind \in Kinds : what = "hint" /\ kind = "dim" BY <1>5
  <2>2. d = Output!Noted(f, what, kind) /\ w = Append(v, Output!Says(what)) BY <1>4, <2>1
  <2>3. what # "greeting" BY <2>1
  <2> QED BY <1>6, <2>2, <2>3, NotedKeeps
<1>8. Output!Over(f, v) \/ Output!Over(d, w) BY <1>1, <1>3, <1>4 DEF Output!Passes
<1>9. UNCHANGED <<cut, basis>> BY DEF Output!Passes
<1>10. busy # None
  <2>1. running => busy \in {"test", "only"} BY DEF Output!Passes
  <2>2. ~running => busy = "build" BY DEF Output!Passes
  <2> QED BY <2>1, <2>2, ConsoleAssumption
<1> QED BY <1>6, <1>7, <1>8, <1>9, <1>10, OverKeeps

LEMMA ConsoleFails == ConsoleIInv /\ Output!Fails => ConsoleIInv'
<1> SUFFICES ASSUME ConsoleIInv, Output!Fails PROVE ConsoleIInv' OBVIOUS
<1>1. PICK c, s : c = Output!Now /\ s = said OBVIOUS
<1>2. Holds(c, s) /\ Follows(c) BY <1>1 DEF ConsoleIInv
<1>3. PICK d, v : d = Output!Noted(c, "end", "fail") /\ v = Append(s, Output!Says("end")) OBVIOUS
<1>4. Holds(d, v) /\ Follows(d)
  <2>1. "fail" \in Kinds BY DEF Kinds
  <2> QED BY <1>2, <1>3, <2>1, NotedKeeps
<1>5. Output!Over(d, v) /\ UNCHANGED <<cut, basis>> BY <1>1, <1>3 DEF Output!Fails
<1>6. busy # None BY ConsoleAssumption DEF Output!Fails
<1> QED BY <1>4, <1>5, <1>6, OverKeeps

LEMMA ConsoleEndsSilently == ConsoleIInv /\ Output!EndsSilently => ConsoleIInv'
<1> SUFFICES ASSUME ConsoleIInv, Output!EndsSilently PROVE ConsoleIInv' OBVIOUS
<1>1. PICK c, s : c = Output!Now /\ s = said OBVIOUS
<1>2. Holds(c, s) /\ Follows(c) BY <1>1 DEF ConsoleIInv
<1>3. Output!Over(c, s) /\ UNCHANGED <<cut, basis>> BY <1>1 DEF Output!EndsSilently
<1>4. busy # None
  <2>1. busy \in {"run", "build"} BY DEF Output!EndsSilently
  <2> QED BY <2>1, ConsoleAssumption
<1> QED BY <1>2, <1>3, <1>4, OverKeeps

LEMMA ConsoleStopped == ConsoleIInv /\ Output!Stopped => ConsoleIInv'
<1> SUFFICES ASSUME ConsoleIInv, Output!Stopped PROVE ConsoleIInv' OBVIOUS
<1>1. PICK c, s : c = Output!Now /\ s = said OBVIOUS
<1>2. Holds(c, s) /\ Follows(c) BY <1>1 DEF ConsoleIInv
<1>3. PICK f, v : f = Output!Noted(c, "end", "fail") /\ v = Append(s, Output!Says("end")) OBVIOUS
<1>4. Holds(f, v) /\ Follows(f)
  <2>1. "fail" \in Kinds BY DEF Kinds
  <2> QED BY <1>2, <1>3, <2>1, NotedKeeps
<1>5. PICK d : d = Output!Halted(c) OBVIOUS
<1>6. Holds(d, v) /\ NoneRun(d)
  <2>1. PICK marked \in Chips : marked = Output!NoneRuns(f.chips) /\ \A t \in Tests : marked[t] # "running"
    BY <1>4, FitsCons, MarksIn
  <2>2. d = [f EXCEPT !.chips = marked] BY <1>3, <1>5, <2>1 DEF Output!Halted
  <2> QED BY <1>4, <2>1, <2>2, ChipsKeep DEF NoneRun
<1>7. CASE busy = "run" /\ Output!Over(f, v) /\ UNCHANGED <<cut, basis>>
  <2>1. busy # None BY <1>7, ConsoleAssumption
  <2> QED BY <1>4, <1>7, <2>1, OverKeeps
<1>8. CASE Output!Over(d, v) /\ Output!Marked(d) /\ cut' = TRUE
  BY <1>6, <1>8, OverCut
<1> QED BY <1>1, <1>3, <1>5, <1>7, <1>8 DEF Output!Stopped

LEMMA ConsoleStep == ConsoleIInv /\ [Output!Next]_(Output!vars) => ConsoleIInv'
<1> SUFFICES ASSUME ConsoleIInv, [Output!Next]_(Output!vars) PROVE ConsoleIInv' OBVIOUS
<1>1. CASE UNCHANGED Output!vars
  <2>1. UNCHANGED <<lines, partial, chips, spec, busy, running, cut, basis, said, reported>>
    BY <1>1 DEF Output!vars, Output!pane, Output!history
  <2>2. PICK c : c = Output!Now OBVIOUS
  <2>3. Output!Now' = c BY <2>1, <2>2 DEF Output!Now
  <2>4. Holds(Output!Now', said') BY <2>1, <2>2, <2>3 DEF ConsoleIInv
  <2>5. Follows(Output!Now)'
    <3>1. Follows(c) BY <2>2 DEF ConsoleIInv
    <3> QED BY <2>1, <2>3, <3>1, FollowsStill
  <2>6. PaneFlags' /\ Output!StopClears' BY <2>1 DEF ConsoleIInv, PaneFlags, Output!StopClears
  <2> QED BY <2>4, <2>5, <2>6 DEF ConsoleIInv
<1> QED BY <1>1, ConsoleSpecComes, ConsoleClear, ConsoleReset, ConsoleStartRun, ConsoleProgramStarts, ConsolePrints,
           ConsoleBuildFails, ConsoleTestsUnbuilt, ConsolePasses, ConsoleFails, ConsoleEndsSilently, ConsoleStopped
   DEF Output!Next

LEMMA ConsoleImplies == ConsoleIInv => ConsoleInv
<1> SUFFICES ASSUME ConsoleIInv PROVE ConsoleInv OBVIOUS
<1>1. PICK c, r : c = Output!Now /\ r = Output!Read OBVIOUS
<1>2. Agrees(c, r) /\ Follows(c)
  <2>1. r = ReadIs(said) BY <1>1 DEF Output!Read, ReadIs
  <2> QED BY <1>1, <2>1 DEF ConsoleIInv, Holds
<1>3. c.lines = lines /\ c.partial = partial /\ c.chips = chips /\ c.reported = reported BY <1>1, NowFields
<1>4. /\ c \in Cons /\ r \in Reading /\ partial = r.open /\ reported = r.told
      /\ Shows(lines, Output!AllLines(r), r.open # None)
  BY <1>2, <1>3 DEF Agrees
<1>5. lines \in Seq(ShownLine) /\ chips \in Chips /\ partial \in OpenLine \cup {None} BY <1>3, <1>4, FieldsOf
<1>6. PICK all \in Seq(Line) : all = Output!AllLines(r) BY <1>4, ReadingOf
<1>7. PICK n \in Nat, k \in Nat, M \in Nat \ {0} : n = Len(lines) /\ k = Len(all) /\ M = MaxLines
  BY <1>5, <1>6, LenProperties, ConsoleAssumption
<1>8. PICK going \in BOOLEAN : going = (partial # None) OBVIOUS
<1>9. n = (IF k > M THEN M ELSE k) /\ \A i \in 1..n : Fitting(lines[i], all[i + (k - n)], going /\ i = n)
  <2>1. Shows(lines, all, going) BY <1>4, <1>6, <1>8
  <2> QED BY <1>7, <2>1 DEF Shows
<1>10. Output!LinesAreTheText
  <2>1. ASSUME NEW i \in 1..n
        PROVE  LET l == all[i + (k - n)]
               IN  /\ lines[i].text = l.text
                   /\ l.fd # 0 /\ ~(i = n /\ partial # None) => lines[i].kind = Output!Classify(l.text, l.fd)
    BY <1>8, <1>9, <2>1 DEF Fitting
  <2> QED BY <1>1, <1>6, <1>7, <1>9, <2>1 DEF Output!LinesAreTheText
<1>11. Output!ConsoleTypeOK
  <2>1. Len(lines) <= MaxLines BY <1>7, <1>9
  <2>2. \A t \in Tests : chips[t] \in {None, "running", "pass", "fail"} BY <1>5 DEF Chips
  <2>3. partial # None => lines # <<>> /\ lines[Len(lines)].text = partial.text /\ partial.fd \in {1, 2}
    <3>1. SUFFICES ASSUME partial # None
                   PROVE lines # <<>> /\ lines[Len(lines)].text = partial.text /\ partial.fd \in {1, 2}
      OBVIOUS
    <3>2. PICK l \in OpenLine : l = partial /\ l = r.open BY <1>4, <1>5, <3>1
    <3>3. l.fd \in {1, 2} /\ l \in Line BY LineIsOpen DEF OpenLine
    <3>4. r.ended \in Seq(Line) BY <1>4, ReadingOf
    <3>5. all = Append(r.ended, l) BY <1>4, <1>6, <3>1, <3>2 DEF Output!AllLines
    <3>6. k = Len(r.ended) + 1 /\ all[k] = l /\ k # 0
      <4>1. Len(r.ended) \in Nat BY <3>4, LenProperties
      <4> QED BY <1>7, <3>3, <3>4, <3>5, <4>1, AppendProperties
    <3>7. n # 0 /\ n \in 1..n /\ n + (k - n) = k BY <1>7, <1>9, <3>6
    <3>8. lines[n].text = l.text
      <4>1. Fitting(lines[n], all[n + (k - n)], going /\ n = n) BY <1>9, <3>7
      <4> QED BY <3>6, <3>7, <4>1 DEF Fitting
    <3> QED BY <1>5, <1>7, <3>2, <3>3, <3>7, <3>8, EmptySeq
  <2>4. /\ {spec, running, cut} \subseteq BOOLEAN /\ busy \in {None, "test", "only", "run", "build"}
        /\ running => busy \in {"test", "only", "run"}
    BY DEF ConsoleIInv, PaneFlags
  <2> QED BY <2>1, <2>2, <2>3, <2>4 DEF Output!ConsoleTypeOK
<1>12. Output!ReportedOnce BY <1>1, <1>4 DEF Output!ReportedOnce
<1>13. Output!ChipsFollowLines
  <2>1. PICK h \in Nat : h = Len(reported) BY <1>3, <1>4, FieldsOf, LenProperties
  <2>2. PICK p \in 0..h : p = basis.after BY <1>2, <1>3, <2>1 DEF Follows
  <2>3. ASSUME NEW t \in Tests, \A m \in (p + 1)..h : ~Output!About(reported[m], t) PROVE chips[t] = basis.chips[t]
    BY <1>2, <1>3, <2>1, <2>2, <2>3 DEF Follows
  <2>4. ASSUME NEW t \in Tests, NEW m \in (p + 1)..h, Output!About(reported[m], t),
               \A j \in (p + 1)..h : Output!About(reported[j], t) => j <= m
        PROVE  chips[t] = Output!Verdict(reported[m])
    <3>1. \A j \in (m + 1)..h : j \in (p + 1)..h /\ ~(j <= m) BY <2>1, <2>2
    <3>2. \A j \in (m + 1)..h : ~Output!About(reported[j], t) BY <2>4, <3>1
    <3> QED BY <1>2, <1>3, <2>1, <2>2, <2>4, <3>2 DEF Follows
  <2> QED BY <2>1, <2>2, <2>3, <2>4 DEF Output!ChipsFollowLines
<1>14. Output!GreetingFirst BY DEF ConsoleIInv, Holds, GreetsFirst, Output!GreetingFirst
<1>15. Output!StopClears BY DEF ConsoleIInv
<1> QED BY <1>10, <1>11, <1>12, <1>13, <1>14, <1>15 DEF ConsoleInv, Output!ConsoleInv

\* For any tests, any output cut into any pieces, any number of runs that end in any
\* of their ways, any cap, and Clear and Reset at any time: the console shows the last
\* lines of what was said since it was cleared, each of its kind; every line of a
\* program that ended is reported once, in order; a chip says what the last line about
\* its test says since the page set the chips; no test runs after tests that were
\* stopped or did not build; and the greeting comes first or never (console.ts,
\* CodePane.tsx).
THEOREM ConsoleIsKept == Output!Spec => []ConsoleInv
<1>1. Output!Spec => []ConsoleIInv BY ConsoleInit, ConsoleStep, PTL DEF Output!Spec
<1> QED BY <1>1, ConsoleImplies, PTL
=============================================================================
