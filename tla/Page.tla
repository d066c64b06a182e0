-------------------------------- MODULE Page --------------------------------
(***************************************************************************)
(* The site around the code pane: routes, views and doors (module Site),   *)
(* the theme (Theme), the columns and lists (Shell) and the splitters      *)
(* (Splitter); and the console of the pane (Console).  They share neither  *)
(* state nor storage keys, so what is claimed of each is claimed of its    *)
(* own variables.                                                          *)
(***************************************************************************)
EXTENDS Integers, Sequences, FiniteSets

CONSTANTS
  Exercises, Doors, Today, Home, MaxFails, MaxClicks,    \* Site
  Pages, None,
  MaxThemeNews,                                          \* Theme
  Catalogue, Recommended, MaxShellNews,                  \* Shell
  Whole, Low, High, Step, Fallback, MaxRenders,          \* Splitter
  Tests, Named, Lazy, NL,
  MaxLines, MaxPiece, MaxMarks, MaxRuns                  \* Console

\* A scene is drawn by one door at most, as Markdown groups them by tier and each
\* tier has one pin (Markdown.tsx, the groups of its fences).
ASSUME PageAssumption ==
  /\ \A e \in Exercises : \A c, d \in DOMAIN Doors[e] :
       Doors[e][c] \cap Doors[e][d] # {} => c = d
  /\ Recommended \subseteq Catalogue /\ None \notin Catalogue
  /\ {Whole, Low, High, Step, Fallback} \subseteq Int /\ None \notin Int
  /\ Low <= Fallback /\ Fallback <= High

\* The newline is no other mark, and what stands for nothing is no test, no chip, no run
\* and no line.
ASSUME ConsoleAssumption ==
  /\ None \notin Tests \cup {"running", "test", "only", "run", "build"}
  /\ Lazy \in BOOLEAN /\ MaxLines \in Nat \ {0} /\ MaxPiece \in Nat
  /\ NL \notin [say : {"run", "pass", "fail", "text"}, test : Tests \cup {None}]
  /\ None \notin [text : Seq([say : {"run", "pass", "fail", "text"}, test : Tests \cup {None}]), fd : {1, 2}]

VARIABLES
  at, tab, fetched, view, docSpec, codeSpec, doors, listeners, pending, open,
  fails, clicks, asked, answers,
  dark, pref, themes, themeNews, chosen, prefLost,
  savedNav, savedStatus, page, news, result, lost, insists,
  shown, rendered, frac, dragging, fraction, stale, fractionLost, other, renders,
  lines, partial, chips, spec, busy, running, cut, basis, runs, said, reported, marks

Routes == INSTANCE Site
Colours == INSTANCE Theme WITH saved <- pref, page <- themes, news <- themeNews,
                               failed <- prefLost, MaxNews <- MaxThemeNews
Columns == INSTANCE Shell WITH Exercises <- Catalogue, MaxNews <- MaxShellNews
Splits == INSTANCE Splitter WITH saved <- fraction, failed <- fractionLost
Output == INSTANCE Console

siteVars == <<at, tab, fetched, view, docSpec, codeSpec, doors, listeners, pending, open,
              fails, clicks, asked, answers>>
themeVars == <<dark, pref, themes, themeNews, chosen, prefLost>>
shellVars == <<savedNav, savedStatus, page, news, result, lost, insists>>
splitVars == <<shown, rendered, frac, dragging, fraction, stale, fractionLost, other, renders>>
consoleVars == <<lines, partial, chips, spec, busy, running, cut, basis, runs, said, reported, marks>>

-----------------------------------------------------------------------------
(* What is claimed of each part, in the words of its module. *)

\* A view that loads is served, only doors on the page are heard, and a click
\* opens one door at most, of its own exercise (data.ts, doorIntent.ts).
SiteInv == Routes!SiteInv

\* Page, editor and code blocks agree with the preference and the system, and
\* what is saved is the last choice in any page (theme.ts, Markdown.tsx).
ThemeInv == Colours!ThemeInv

\* Neither pane vanishes, a splitter that is let go stands where a reload finds
\* it, and a render does not take it from under the pointer (Splitter.tsx).
SplitterKeeps == Splits!SplitterKeeps

\* The list shows the exercise of the page, the drawer opens by its toggle alone,
\* and what the browser keeps of an exercise is its last result (App.tsx).
ShellKeeps == Columns!ShellKeeps

\* The console shows the text that was printed, reports each line of a program
\* once, and its chips say what the lines said last (console.ts, CodePane.tsx).
ConsoleInv == Output!ConsoleInv
=============================================================================
