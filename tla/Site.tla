-------------------------------- MODULE Site --------------------------------
(***************************************************************************)
(* The page around an exercise: the route (router.ts), the cache of its    *)
(* JSON (data.ts), the view that loads it (ExerciseView.tsx), the visual   *)
(* spec that the docs and the code pane load lazily (useVizSpec.ts), and   *)
(* the doors in the README (Markdown.tsx, VizDoor.tsx) which a failing     *)
(* test in the console opens with an intent (doorIntent.ts).               *)
(*                                                                         *)
(* A view is keyed by its exercise, so leaving the exercise throws away    *)
(* all that it had.  A spec gives an exercise the doors of its README in   *)
(* order, each with the scenes it draws; a scene is a model value.         *)
(***************************************************************************)
EXTENDS Integers, Sequences, FiniteSets

CONSTANTS Exercises,
          Home,      \* the route of no exercise
          Doors,     \* exercise |-> its doors in order, each a set of scenes
          Today,     \* exercise |-> the scene that the console links to
          None,
          MaxFails,  \* bound on the fetches that fail
          MaxClicks  \* bound on the clicks on See why

VARIABLES
  at, tab,     \* the route
  fetched,     \* exercise |-> what the cache holds: None, "pending" or "done"
  view,        \* the view of the exercise: "none", "loading", "ready" or "error"
  docSpec, codeSpec,  \* the spec has come to the docs, to the code pane
  doors,       \* the doors that are mounted
  listeners,   \* the doors among them that have subscribed
  pending,     \* the intent that waits for a door: None or its exercise
  open,        \* door |-> the scene it shows, None for the diagram
  fails, clicks,
  asked,       \* history: the exercise of a click that no door has answered
  answers      \* history: how many sessions clicks have opened

route == <<at, tab>>
loads == <<fetched, view, docSpec, codeSpec>>
door == <<doors, listeners, pending, open>>
history == <<fails, clicks, asked, answers>>
vars == <<route, loads, door, history>>

DoorsOf(e) == DOMAIN Doors[e]
Empty == [d \in {} |-> None]

-----------------------------------------------------------------------------
\* Loading.

\* fetchJSON: one promise for everybody, until it fails.
FetchJSON(e) == fetched' = [fetched EXCEPT ![e] = IF @ = None THEN "pending" ELSE @]

\* The views of the old exercise go and the new one loads.  Leaving the Problem
\* tab, or the exercise, unmounts its doors; their cleanup unsubscribes.
LeaveDoors == doors' = {} /\ listeners' = {} /\ open' = Empty

GoTo(e, t) ==
  /\ <<e, t>> # route
  /\ at' = e /\ tab' = t
  /\ IF e = at THEN UNCHANGED loads
     ELSE /\ IF e = Home THEN UNCHANGED fetched ELSE FetchJSON(e)
          /\ view' = IF e = Home THEN "none" ELSE "loading"
          /\ docSpec' = FALSE /\ codeSpec' = FALSE

Navigate ==
  \E e \in Exercises \cup {Home} : \E t \in {"problem", "solution"} :
    /\ e = Home => t = "problem"
    /\ GoTo(e, t)
    /\ LeaveDoors
    /\ asked' = IF e = at THEN asked ELSE None
    /\ UNCHANGED <<pending, fails, clicks, answers>>

\* The promise settles.  A failed one is forgotten, so that the next visit asks
\* again.
FetchFails(e) == fetched' = [fetched EXCEPT ![e] = None]
Live(e) == at = e /\ view = "loading"

Settles(e) ==
  /\ fetched[e] = "pending"
  /\ \/ /\ fetched' = [fetched EXCEPT ![e] = "done"]
        /\ view' = IF Live(e) THEN "ready" ELSE view
        /\ UNCHANGED fails
     \/ /\ fails < MaxFails /\ fails' = fails + 1
        /\ FetchFails(e)
        /\ view' = IF Live(e) THEN "error" ELSE view
  /\ UNCHANGED <<route, docSpec, codeSpec, door, clicks, asked, answers>>

\* A fetch that was done already is there at the next turn.
Arrives ==
  /\ view = "loading" /\ fetched[at] = "done"
  /\ view' = "ready"
  /\ UNCHANGED <<route, fetched, docSpec, codeSpec, door, history>>

\* useVizSpec, once in the docs and once in the code pane.
SpecComes ==
  /\ view = "ready"
  /\ \/ ~docSpec /\ docSpec' = TRUE /\ UNCHANGED codeSpec
     \/ ~codeSpec /\ codeSpec' = TRUE /\ UNCHANGED docSpec
  /\ UNCHANGED <<route, fetched, view, door, history>>

-----------------------------------------------------------------------------
\* Doors and intents.

\* Markdown mounts the doors of the README when it has the spec.
MountDoors ==
  /\ view = "ready" /\ tab = "problem" /\ docSpec /\ doors # DoorsOf(at)
  /\ doors' = DoorsOf(at)
  /\ open' = [d \in DoorsOf(at) |-> None]
  /\ UNCHANGED <<route, loads, listeners, pending, history>>

\* The doors that an intent for e opens: those of its exercise which draw its
\* scene.  A mutant, AnswersAll, looks at neither.
AnswersAll(e, heard) == heard
Answering(e, heard) == {d \in heard : e = at /\ Today[e] \in Doors[e][d]}

Opened(e, heard) ==
  LET opening == Answering(e, heard)
  IN  /\ open' = [d \in DOMAIN open |-> IF d \in opening THEN Today[e] ELSE open[d]]
      /\ answers' = answers + Cardinality(opening)
      /\ asked' = IF opening # {} THEN None ELSE asked

\* onDoorIntent: the effects of the mounted doors run together and in order, so
\* all subscribe, and the first one takes the waiting intent, be it for it or not.
TakePending == pending' = None
First == CHOOSE d \in doors : \A c \in doors : d <= c
Subscribe ==
  /\ listeners # doors
  /\ listeners' = doors
  /\ IF pending = None THEN UNCHANGED <<pending, open, asked, answers>>
     ELSE TakePending /\ Opened(pending, {First})
  /\ UNCHANGED <<route, loads, doors, fails, clicks>>

\* openToday, a click on See why: the intent goes to the doors that listen, or
\* waits if there are none; and the Problem tab comes to the front.
\* AskNobody is a mutant.
AskNobody(e) == UNCHANGED <<pending, open, answers>> /\ asked' = e
Ask(e) == IF listeners = {} THEN pending' = e /\ asked' = e /\ UNCHANGED <<open, answers>>
          ELSE Opened(e, listeners) /\ UNCHANGED pending

SeeWhy ==
  /\ view = "ready" /\ codeSpec /\ clicks < MaxClicks
  /\ clicks' = clicks + 1
  /\ tab' = "problem"
  /\ Ask(at)
  /\ UNCHANGED <<at, loads, doors, listeners, fails>>

\* A click on a chip of a door: a scene, or the diagram again.
Chip ==
  \E d \in doors : \E s \in Doors[at][d] \cup {None} :
    /\ open' = [open EXCEPT ![d] = s]
    /\ UNCHANGED <<route, loads, doors, listeners, pending, history>>

-----------------------------------------------------------------------------
Init ==
  /\ at = Home /\ tab = "problem"
  /\ fetched = [e \in Exercises |-> None] /\ view = "none"
  /\ docSpec = FALSE /\ codeSpec = FALSE
  /\ doors = {} /\ listeners = {} /\ pending = None /\ open = Empty
  /\ fails = 0 /\ clicks = 0 /\ asked = None /\ answers = 0

Page == (\E e \in Exercises : Settles(e)) \/ Arrives \/ SpecComes \/ MountDoors \/ Subscribe
Visitor == Navigate \/ SeeWhy \/ Chip
Next == Page \/ Visitor
Spec == Init /\ [][Next]_vars

\* Fetches settle, and React mounts what is rendered and runs its effects.
Fairness == /\ \A e \in Exercises : WF_vars(Settles(e))
            /\ WF_vars(Arrives) /\ WF_vars(SpecComes) /\ WF_vars(MountDoors) /\ WF_vars(Subscribe)
FairSpec == Spec /\ Fairness

-----------------------------------------------------------------------------
SiteTypeOK ==
  /\ at \in Exercises \cup {Home} /\ tab \in {"problem", "solution"}
  /\ \A e \in Exercises : fetched[e] \in {None, "pending", "done"}
  /\ view \in {"none", "loading", "ready", "error"} /\ (view = "none" <=> at = Home)
  /\ {docSpec, codeSpec} \subseteq BOOLEAN
  /\ at # Home => doors \subseteq DoorsOf(at) /\ (doors # {} => tab = "problem")
  /\ DOMAIN open = doors /\ pending \in Exercises \cup {None}

\* Only doors on the page are heard: openDoor takes an empty set of listeners to
\* mean that the intent must wait, so a listener left behind would lose it
\* (doorIntent.ts, openDoor; VizDoor.tsx, the cleanup of its effect).
HeardAreMounted == listeners \subseteq doors

\* A view that loads has a promise to wait for, and one that failed can be
\* loaded again by a new visit (fetchJSON and the effect of ExerciseView).
LoadingIsServed ==
  /\ view = "loading" => fetched[at] \in {"pending", "done"}
  /\ view = "ready" => fetched[at] = "done"

\* A click opens one door at most, of its own exercise: the intent "is consumed
\* once, so a later exercise cannot inherit it" (doorIntent.ts:7).
OneDoorPerClick ==
  /\ answers <= clicks
  /\ \A d \in doors : open[d] # None => open[d] \in Doors[at][d]

\* A click on See why opens the door of the Today scene, if the exercise has one,
\* also from the Solution tab and before the docs have their spec, unless the
\* visitor leaves the exercise first or turns back to the Solution tab.
HasDoor(e) == \E d \in DoorsOf(e) : Today[e] \in Doors[e][d]
ClickOpens ==
  \A e \in {x \in Exercises : HasDoor(x)} : asked = e ~> (asked # e \/ tab = "solution")

\* Who stays on an exercise sees it, or that it did not load.
ViewLoads == view = "loading" ~> view # "loading"

\* What holds on the page of an exercise at any time.
SiteInv == SiteTypeOK /\ HeardAreMounted /\ LoadingIsServed /\ OneDoorPerClick
=============================================================================
