---------------------------- MODULE FrontProofs ----------------------------
(***************************************************************************)
(* Theorems about the single-page application, for any namespaces, kinds   *)
(* and names and any number of fetches under way.                          *)
(***************************************************************************)
EXTENDS FrontSafety, TLAPS

PanelStates == {"none", "loading", "loaded", "forbidden", "unavailable"}
Panel == [state : PanelStates, about : Screens, why : Answers \cup {"none"}]
FetchRecord == [state : {"none", "pending"}, about : Screens, mounted : BOOLEAN, cancelled : BOOLEAN]

\* A screen is one of five kinds, and its kind tells which fields it has.
LEMMA ScreenCases ==
    ASSUME NEW s \in Screens
    PROVE  \/ s = Start
           \/ \E ns \in Namespaces : s = Screen("overview", ns, None, None)
           \/ \E ns \in Namespaces, res \in Kinds : s = Screen("list", ns, res, None)
           \/ \E ns \in Namespaces, res \in Kinds, name \in Names : s = Screen("detail", ns, res, name)
           \/ \E ns \in Namespaces, name \in Names : s = Screen("logs", ns, None, name)
BY DEF Screens

\* Two screens with the same fields are the same.
LEMMA ScreenFields ==
    ASSUME NEW k, NEW ns, NEW res, NEW name
    PROVE  /\ Screen(k, ns, res, name).kind = k
           /\ Screen(k, ns, res, name).ns = ns
           /\ Screen(k, ns, res, name).res = res
           /\ Screen(k, ns, res, name).name = name
BY DEF Screen

\* Every click leads to a screen.
LEMMA ClicksAreScreens ==
    ASSUME NEW s \in Screens, NEW t \in Clicks(s)
    PROVE  t \in Screens
<1>0. Start \in Screens
  BY DEF Screens
<1>1. CASE s.kind = "namespaces"
  BY <1>1 DEF Clicks, Screens
<1>2. CASE s.kind # "namespaces"
  <2>1. s.ns \in Namespaces
    BY <1>2, ScreenCases, ScreenFields DEF Start
  <2>2. s.kind = "detail" => s.res \in Kinds
    BY ScreenCases, ScreenFields DEF Start
  <2>3. s.kind \in {"detail", "logs"} => CloseTo(s) \in Screens
    BY <2>1, <2>2, FrontAssumption DEF CloseTo, Screens
  <2>4. s.kind = "list" => s.res \in Kinds
    BY ScreenCases, ScreenFields DEF Start
  <2>5. QED
    BY <1>0, <1>2, <2>1, <2>3, <2>4 DEF Clicks, Screens
<1>3. QED
  BY <1>1, <1>2

\* No click leads to another screen of the component that is mounted: what the
\* keys of Workspace are for.
LEMMA ClicksRemount ==
    ASSUME NEW s \in Screens, NEW t \in Clicks(s), Identity(t) = Identity(s)
    PROVE  t = s
<1>1. t.kind = s.kind
  <2>1. \A u : Identity(u)[1] = u.kind
    BY DEF Identity
  <2>2. QED
    BY <2>1
<1>2. s.kind = "list" => t.res = s.res
  <2>1. \A u : u.kind = "list" => Identity(u)[2] = u.res
    BY DEF Identity
  <2>2. QED
    BY <1>1, <2>1
<1>3. s.kind # "namespaces"
  BY <1>1, ScreenFields DEF Clicks
<1>4. t \in {Start, Screen("overview", s.ns, None, None)}
        \/ \E res \in Kinds : t = Screen("list", s.ns, res, None)
  BY <1>1, <1>3, ScreenFields DEF Clicks, CloseTo
<1>5. CASE t = Start
  BY <1>1, <1>3, <1>5, ScreenFields DEF Start
<1>6. CASE t = Screen("overview", s.ns, None, None)
  <2>1. s.kind = "overview"
    BY <1>1, <1>6, ScreenFields
  <2>2. QED
    BY <1>6, <2>1, ScreenCases, ScreenFields DEF Start
<1>7. ASSUME NEW res \in Kinds, t = Screen("list", s.ns, res, None) PROVE t = s
  <2>1. s.kind = "list" /\ s.res = res
    BY <1>1, <1>2, <1>7, ScreenFields
  <2>2. QED
    BY <1>7, <2>1, ScreenCases, ScreenFields DEF Start
<1>8. QED
  BY <1>4, <1>5, <1>6, <1>7

----------------------------------------------------------------------------
(* Type correctness                                                        *)

\* Whatever an effect does, it starts fetches in free places.
LEMMA EffectTyped ==
    ASSUME NEW fs \in [Fetches -> FetchRecord], NEW s \in Screens, NEW gs \in Effect(fs, s)
    PROVE  gs \in [Fetches -> FetchRecord]
<1>1. \A c \in BOOLEAN : Fetch(s, c) \in FetchRecord
  BY DEF Fetch, FetchRecord
<1>2. Free \subseteq Fetches
  BY DEF Free
<1>3. QED
  BY <1>1, <1>2 DEF Effect

LEMMA CleanedTyped ==
    ASSUME fetches \in [Fetches -> FetchRecord]
    PROVE  /\ Cleaned \in [Fetches -> FetchRecord]
           /\ Unmounted \in [Fetches -> FetchRecord]
<1>1. ASSUME NEW f \in Fetches, NEW r \in FetchRecord
      PROVE  [r EXCEPT !.cancelled = TRUE] \in FetchRecord /\ [r EXCEPT !.mounted = FALSE] \in FetchRecord
  BY Zenon DEF FetchRecord
<1>2. Cleaned \in [Fetches -> FetchRecord]
  BY <1>1 DEF Cleaned
<1>3. QED
  BY <1>1, <1>2 DEF Unmounted

LEMMA ConstantsTyped ==
    /\ Start \in Screens /\ NoPanel \in Panel /\ Loading \in Panel
    /\ Loading.state = "loading" /\ NoPanel.state = "none" /\ NoPanel.why = "none"
    /\ NoFetch \in FetchRecord /\ NoFetch.state = "none"
<1>1. Start \in Screens
  BY DEF Screens
<1>2. QED
  BY <1>1 DEF NoPanel, Loading, NoFetch, Panel, PanelStates, FetchRecord

LEMMA TypeRestated ==
    TypeOK <=> /\ strict \in BOOLEAN /\ leaving \in BOOLEAN
               /\ page \in {"loading", "in", "out"} /\ status \in 0..2
               /\ screen \in Screens /\ panel \in Panel /\ fetches \in [Fetches -> FetchRecord]
BY DEF TypeOK, Panel, PanelStates, FetchRecord

LEMMA LoadsTyped == Loads \in 0..2
BY DEF Loads

LEMMA FrontTypeInit == Init => TypeOK
<1> SUFFICES ASSUME Init PROVE TypeOK
  OBVIOUS
<1>1. panel \in Panel /\ screen \in Screens /\ fetches \in [Fetches -> FetchRecord]
  BY ConstantsTyped DEF Init
<1>2. QED
  BY <1>1, LoadsTyped, TypeRestated DEF Init

LEMMA LoadTyped == TypeOK /\ Load => TypeOK'
<1> SUFFICES ASSUME TypeOK, Load PROVE TypeOK'
  OBVIOUS
<1>1. panel' \in Panel /\ screen' \in Screens /\ fetches' \in [Fetches -> FetchRecord]
  BY ConstantsTyped DEF Load
<1>2. QED
  BY <1>1, LoadsTyped DEF Load, TypeOK, Panel, PanelStates, FetchRecord

LEMMA MountTyped ==
    ASSUME TypeOK, NEW s \in Screens, Mount(s)
    PROVE  screen' \in Screens /\ panel' \in Panel /\ fetches' \in [Fetches -> FetchRecord]
<1>1. Unmounted \in [Fetches -> FetchRecord]
  BY TypeRestated, CleanedTyped
<1>2. QED
  BY <1>1, ConstantsTyped, EffectTyped DEF Mount

\* The answer to a fetch sets a state that views have.
LEMMA OutcomeTyped ==
    ASSUME TypeOK, NEW f \in Fetches, NEW answer \in Answers
    PROVE  /\ Outcome(f, answer) \in Panel
           /\ Outcome(f, answer).state \notin {"none", "loading"}
           /\ Outcome(f, answer).about = fetches[f].about
<1>1. fetches[f].about \in Screens
  BY DEF TypeOK
<1>2. QED
  BY <1>1 DEF Outcome, Panel, PanelStates, Answers

LEMMA SettleTyped ==
    ASSUME TypeOK, NEW f \in Fetches, Settle(f)
    PROVE  panel' \in Panel /\ fetches' \in [Fetches -> FetchRecord]
<1>1. panel \in Panel /\ fetches \in [Fetches -> FetchRecord]
  BY TypeRestated
<1>2. panel' \in Panel
  BY <1>1, OutcomeTyped DEF Settle
<1>3. QED
  BY <1>1, <1>2, ConstantsTyped DEF Settle

LEMMA UpdateTyped ==
    ASSUME TypeOK, NEW s \in Screens, Update(s)
    PROVE  screen' \in Screens /\ panel' \in Panel /\ fetches' \in [Fetches -> FetchRecord]
<1>1. panel \in Panel /\ Cleaned \in [Fetches -> FetchRecord]
  BY TypeRestated, CleanedTyped
<1>2. QED
  BY <1>1, EffectTyped DEF Update

LEMMA FrontTypeStep == TypeOK /\ [Next]_vars => TypeOK'
<1> SUFFICES ASSUME TypeOK, [Next]_vars PROVE TypeOK'
  OBVIOUS
<1> DEFINE Typed == screen' \in Screens /\ panel' \in Panel /\ fetches' \in [Fetches -> FetchRecord]
<1>0. screen \in Screens /\ panel \in Panel /\ fetches \in [Fetches -> FetchRecord]
  BY TypeRestated
<1>1. ASSUME NEW s \in Clicks(screen), Click(s) PROVE TypeOK'
  <2>1. s \in Screens
    BY <1>0, ClicksAreScreens
  <2>2. Typed
    BY <1>1, <2>1, MountTyped, UpdateTyped DEF Click
  <2>3. QED
    BY <1>1, <2>2 DEF Click, TypeOK, Panel, PanelStates, FetchRecord
<1>2. CASE LogOut
  BY <1>2 DEF LogOut, TypeOK
<1>3. CASE Reload
  BY <1>3, LoadTyped DEF Reload
<1>4. CASE StatusAnswered
  <2>1. Typed
    BY <1>0, <1>4, MountTyped, CleanedTyped, ConstantsTyped DEF StatusAnswered
  <2>2. page' \in {"loading", "in", "out"} /\ status' \in 0..2
    BY <1>4 DEF StatusAnswered, TypeOK
  <2>3. QED
    BY <1>4, <2>1, <2>2 DEF StatusAnswered, TypeOK, Panel, PanelStates, FetchRecord
<1>5. CASE LogoutAnswered
  BY <1>5, LoadTyped DEF LogoutAnswered, TypeOK
<1>6. ASSUME NEW f \in Fetches, Settle(f) PROVE TypeOK'
  <2>1. Typed
    BY <1>0, <1>6, SettleTyped DEF Settle
  <2>2. QED
    BY <1>6, <2>1 DEF Settle, TypeOK, Panel, PanelStates, FetchRecord
<1>7. CASE UNCHANGED vars
  BY <1>7 DEF vars, TypeOK
<1>8. QED
  BY <1>1, <1>2, <1>3, <1>4, <1>5, <1>6, <1>7 DEF Next, Answered

\* Every variable keeps its type through clicks, answers and page loads.
THEOREM FrontTypeCorrect == Spec => []TypeOK
BY FrontTypeInit, FrontTypeStep, PTL DEF Spec

----------------------------------------------------------------------------
(* One live fetch for a view that loads, none for another                  *)

\* The fetches whose callback will set the state of the view.
LiveIn(fs) == {f \in Fetches : fs[f].state = "pending" /\ ~fs[f].cancelled /\ fs[f].mounted}

LiveFor(fs, s) == \E f \in LiveIn(fs) : LiveIn(fs) = {f} /\ fs[f].about = s

IInv == TypeOK /\ ShownMatches /\ LoadingWaits

LEMMA LiveRestated ==
    LoadingWaits <=> /\ panel.state = "loading" => LiveFor(fetches, screen)
                     /\ panel.state # "loading" => LiveIn(fetches) = {}
BY DEF LoadingWaits, Live, Sets, LiveIn, LiveFor

\* Whoever unmounts or cleans up leaves no live fetch behind.
LEMMA NoneLive ==
    ASSUME fetches \in [Fetches -> FetchRecord]
    PROVE  LiveIn(Unmounted) = {}
<1>1. ASSUME NEW f \in Fetches PROVE Unmounted[f].mounted = FALSE
  <2>1. Cleaned[f] \in FetchRecord
    BY CleanedTyped
  <2>2. [Cleaned[f] EXCEPT !.mounted = FALSE].mounted = FALSE
    BY <2>1 DEF FetchRecord
  <2>3. QED
    BY <2>2 DEF Unmounted
<1>2. QED
  BY <1>1 DEF LiveIn

\* An effect leaves exactly one, for its screen, in the development build too.
LEMMA EffectLive ==
    ASSUME NEW fs \in [Fetches -> FetchRecord], LiveIn(fs) = {}, NEW s \in Screens,
           NEW gs \in Effect(fs, s)
    PROVE  LiveFor(gs, s)
<1>1. \A c \in BOOLEAN : /\ Fetch(s, c).state = "pending" /\ Fetch(s, c).mounted
                         /\ Fetch(s, c).cancelled = c /\ Fetch(s, c).about = s
  BY DEF Fetch
<1>2. \A f \in Free : f \in Fetches
  BY DEF Free
<1>3. CASE ~strict
  <2>1. PICK f \in Free : gs = [fs EXCEPT ![f] = Fetch(s, FALSE)]
    BY <1>3 DEF Effect
  <2>2. gs[f] = Fetch(s, FALSE) /\ \A g \in Fetches : g # f => gs[g] = fs[g]
    BY <1>2, <2>1
  <2>3. QED
    BY <1>1, <1>2, <2>2 DEF LiveIn, LiveFor
<1>4. CASE strict
  <2>1. PICK p \in Free \X Free : p[1] # p[2] /\ gs = [fs EXCEPT ![p[1]] = Fetch(s, TRUE), ![p[2]] = Fetch(s, FALSE)]
    BY <1>4 DEF Effect
  <2>2. /\ gs[p[1]] = Fetch(s, TRUE) /\ gs[p[2]] = Fetch(s, FALSE)
        /\ \A g \in Fetches : g # p[1] /\ g # p[2] => gs[g] = fs[g]
    BY <1>2, <2>1
  <2>3. p[1] \in Fetches /\ p[2] \in Fetches
    BY <1>2
  <2>4. ASSUME NEW g \in LiveIn(gs) PROVE g = p[2]
    BY <1>1, <2>2 DEF LiveIn
  <2>5. p[2] \in LiveIn(gs) /\ gs[p[2]].about = s
    BY <1>1, <2>2, <2>3 DEF LiveIn
  <2>6. QED
    BY <2>4, <2>5 DEF LiveFor
<1>5. QED
  BY <1>3, <1>4

LEMMA MountLive ==
    ASSUME TypeOK, NEW s \in Screens, Mount(s)
    PROVE  \/ panel'.state = "none" /\ LiveIn(fetches') = {}
           \/ panel'.state = "loading" /\ LiveFor(fetches', screen')
<1>1. Unmounted \in [Fetches -> FetchRecord] /\ LiveIn(Unmounted) = {}
  BY TypeRestated, CleanedTyped, NoneLive
<1>2. QED
  BY <1>1, EffectLive, ConstantsTyped DEF Mount

\* Bringing the primed fetches back to LoadingWaits.
LEMMA LivePrimed ==
    ASSUME TypeOK,
           \/ panel'.state \notin {"loading", "loaded"} /\ LiveIn(fetches') = {}
           \/ panel'.state = "loaded" /\ panel'.about = screen' /\ LiveIn(fetches') = {}
           \/ panel'.state = "loading" /\ LiveFor(fetches', screen')
    PROVE  ShownMatches' /\ LoadingWaits'
BY DEF ShownMatches, LoadingWaits, Live, Sets, LiveIn, LiveFor

LEMMA LoadLive == TypeOK /\ Load => panel'.state = "none" /\ LiveIn(fetches') = {}
BY ConstantsTyped DEF Load, LiveIn

LEMMA FrontInit == Init => IInv
<1> SUFFICES ASSUME Init PROVE IInv
  OBVIOUS
<1>1. panel.state = "none" /\ LiveIn(fetches) = {}
  BY ConstantsTyped DEF Init, LiveIn
<1>2. QED
  BY <1>1, FrontTypeInit, LiveRestated DEF IInv, ShownMatches

LEMMA FrontStep == IInv /\ [Next]_vars => IInv'
<1> SUFFICES ASSUME IInv, [Next]_vars PROVE IInv'
  OBVIOUS
<1>0. TypeOK /\ TypeOK' /\ ShownMatches /\ LoadingWaits
  BY FrontTypeStep DEF IInv
<1> DEFINE Kept == ShownMatches' /\ LoadingWaits'
<1>a. /\ panel.state = "loading" => LiveFor(fetches, screen)
      /\ panel.state # "loading" => LiveIn(fetches) = {}
  BY <1>0, LiveRestated
<1>b. screen \in Screens /\ Start \in Screens /\ fetches \in [Fetches -> FetchRecord]
  BY <1>0, TypeRestated, ConstantsTyped
<1>c. ASSUME UNCHANGED <<screen, panel, fetches>> PROVE Kept
  BY <1>0, <1>c DEF ShownMatches, LoadingWaits, Live, Sets
<1>d. ASSUME NEW s \in Screens, Mount(s) PROVE Kept
  BY <1>0, <1>d, MountLive, LivePrimed
<1>e. ASSUME Load PROVE Kept
  BY <1>0, <1>e, LoadLive, LivePrimed
<1>f. /\ UNCHANGED <<screen, panel, fetches>> => Kept
      /\ \A s \in Screens : Mount(s) => Kept
      /\ Load => Kept
  BY <1>c, <1>d, <1>e
<1> HIDE DEF Kept
<1>1. ASSUME NEW s \in Clicks(screen), Click(s) PROVE Kept
  <2>1. s \in Screens /\ Identity(s) # Identity(screen)
    BY <1>1, <1>b, ClicksAreScreens, ClicksRemount DEF Click
  <2>2. QED
    BY <1>1, <1>f, <2>1 DEF Click
<1>2. ASSUME LogOut PROVE Kept
  BY <1>2, <1>f DEF LogOut
<1>3. ASSUME Reload PROVE Kept
  BY <1>3, <1>f DEF Reload
<1>4. ASSUME StatusAnswered PROVE Kept
  <2>1. ASSUME panel' = NoPanel, fetches' = Unmounted PROVE Kept
    BY <1>0, <1>b, <2>1, NoneLive, ConstantsTyped, LivePrimed DEF Kept
  <2>2. QED
    BY <1>4, <1>b, <1>f, <2>1 DEF StatusAnswered
<1>5. ASSUME LogoutAnswered PROVE Kept
  BY <1>5, <1>f DEF LogoutAnswered
<1>6. ASSUME NEW f \in Fetches, Settle(f) PROVE Kept
  <2>1. LiveIn(fetches') = LiveIn(fetches) \ {f}
    BY <1>6, <1>b, ConstantsTyped DEF Settle, LiveIn
  <2>2. Sets(f) <=> f \in LiveIn(fetches)
    BY <1>6 DEF Settle, Sets, LiveIn
  <2>3. ASSUME Sets(f) PROVE Kept
    <3>1. panel.state = "loading" /\ LiveIn(fetches) = {f} /\ fetches[f].about = screen
      BY <1>a, <2>2, <2>3 DEF LiveFor
    <3>2. PICK answer \in Answers : panel' = Outcome(f, answer)
      BY <1>6, <2>3 DEF Settle
    <3>3. panel'.state \notin {"none", "loading"} /\ panel'.about = screen'
      BY <1>0, <1>6, <3>1, <3>2, OutcomeTyped DEF Settle
    <3>4. QED
      BY <1>0, <2>1, <3>1, <3>3, LivePrimed DEF Kept
  <2>4. ASSUME ~Sets(f) PROVE Kept
    <3>1. panel' = panel /\ screen' = screen /\ LiveIn(fetches') = LiveIn(fetches)
      BY <1>6, <2>1, <2>2, <2>4 DEF Settle
    <3>2. \A g \in LiveIn(fetches) : fetches'[g] = fetches[g]
      BY <1>6, <1>b, <2>2, <2>4 DEF Settle, LiveIn
    <3>3. panel.state = "loading" => LiveFor(fetches', screen')
      BY <1>a, <3>1, <3>2 DEF LiveFor
    <3>4. QED
      BY <1>0, <1>a, <3>1, <3>3, LivePrimed DEF Kept, ShownMatches
  <2>5. QED
    BY <2>3, <2>4
<1>7. ASSUME UNCHANGED vars PROVE Kept
  BY <1>7, <1>f DEF vars
<1>8. Kept
  BY <1>1, <1>2, <1>3, <1>4, <1>5, <1>6, <1>7 DEF Next, Answered
<1>9. QED
  BY <1>0, <1>8 DEF IInv, Kept

\* What is on the screen is what was fetched for it, in whatever order the
\* answers come.
THEOREM FrontShowsWhatItSays == Spec => []ShownMatches
<1>1. IInv => ShownMatches
  BY DEF IInv
<1>2. QED
  BY <1>1, FrontInit, FrontStep, PTL DEF Spec

\* A view that loads has one fetch that settles it; any other has none.
THEOREM FrontLoadingWaits == Spec => []LoadingWaits
<1>1. IInv => LoadingWaits
  BY DEF IInv
<1>2. QED
  BY <1>1, FrontInit, FrontStep, PTL DEF Spec

----------------------------------------------------------------------------
(* Late answers                                                            *)

\* No view is mounted until there is a session.
Outside == page # "in" => panel.state = "none"

\* An answer sets nothing but a view that loads.
LEMMA SettleSets ==
    ASSUME IInv, NEW f \in Fetches, Settle(f), panel.state # "loading"
    PROVE  panel' = panel
<1>1. LiveIn(fetches) = {}
  BY LiveRestated DEF IInv
<1>2. ~Sets(f)
  BY <1>1 DEF Settle, Sets, LiveIn
<1>3. QED
  BY <1>2 DEF Settle

LEMMA OutsideStep == IInv /\ Outside /\ [Next]_vars => Outside'
<1> SUFFICES ASSUME IInv, Outside, [Next]_vars PROVE Outside'
  OBVIOUS
<1>1. ASSUME NEW s \in Clicks(screen), Click(s) PROVE Outside'
  BY <1>1 DEF Click, Outside
<1>2. ASSUME LogOut \/ UNCHANGED vars PROVE Outside'
  BY <1>2 DEF LogOut, vars, Outside
<1>3. ASSUME Load PROVE Outside'
  BY <1>3, ConstantsTyped DEF Load, Outside
<1>4. ASSUME StatusAnswered PROVE Outside'
  BY <1>4, ConstantsTyped DEF StatusAnswered, Outside
<1>5. ASSUME LogoutAnswered PROVE Outside'
  BY <1>3, <1>5 DEF LogoutAnswered, Outside
<1>6. ASSUME NEW f \in Fetches, Settle(f) PROVE Outside'
  <2>1. page' = page /\ (page # "in" => panel.state # "loading")
    BY <1>6 DEF Settle, Outside
  <2>2. QED
    BY <1>6, <2>1, SettleSets DEF Outside
<1>7. QED
  BY <1>1, <1>2, <1>3, <1>4, <1>5, <1>6 DEF Next, Answered, Reload

\* What a view shows changes by a click or a page load only.
THEOREM FrontSettledStays == Spec => SettledStays
<1> DEFINE Stays == panel.state \notin {"none", "loading"} /\ screen' = screen /\ page' = page
                      => panel' = panel
<1>1. Init => IInv /\ Outside
  BY FrontInit, ConstantsTyped DEF Init, Outside
<1>2. IInv /\ Outside /\ [Next]_vars => [Stays]_vars
  <2> SUFFICES ASSUME IInv, Outside, Next, panel.state \notin {"none", "loading"},
                      screen' = screen, page' = page
               PROVE  panel' = panel
    OBVIOUS
  <2>1. page = "in"
    BY DEF Outside
  <2>2. ~Load
    BY <2>1 DEF Load
  <2>3. ASSUME NEW s \in Clicks(screen), Click(s) PROVE FALSE
    BY <2>3 DEF Click, Mount, Update
  <2>4. ASSUME StatusAnswered PROVE panel' = panel
    BY <2>1, <2>4 DEF StatusAnswered
  <2>5. QED
    BY <2>2, <2>3, <2>4, SettleSets DEF Next, Answered, LogOut, Reload, LogoutAnswered
<1>3. QED
  BY <1>1, <1>2, FrontStep, OutsideStep, PTL DEF Spec, SettledStays

----------------------------------------------------------------------------
(* The abstract view                                                       *)

\* What has settled is about the screen, whatever came of it.
Settled == panel.state \notin {"none", "loading"} => panel.about = screen

VInv == IInv /\ Outside /\ Settled

LEMMA MountPanel ==
    ASSUME NEW s, Mount(s)
    PROVE  screen' = s /\ panel' = IF s.kind = "logs" THEN NoPanel ELSE Loading
BY DEF Mount

LEMMA SettledStep == IInv /\ Settled /\ [Next]_vars => Settled'
<1> SUFFICES ASSUME IInv, Settled, [Next]_vars PROVE Settled'
  OBVIOUS
<1>1. ASSUME NEW s, Mount(s) PROVE Settled'
  BY <1>1, MountPanel, ConstantsTyped DEF Settled
<1>2. ASSUME UNCHANGED <<screen, panel>> PROVE Settled'
  BY <1>2 DEF Settled
<1>3. ASSUME panel' = NoPanel PROVE Settled'
  BY <1>3, ConstantsTyped DEF Settled
<1>4. ASSUME NEW s \in Clicks(screen), Click(s) PROVE Settled'
  <2>1. Identity(s) # Identity(screen)
    BY <1>4, ClicksRemount, TypeRestated DEF Click, IInv
  <2>2. QED
    BY <1>1, <1>4, <2>1 DEF Click
<1>5. CASE StatusAnswered
  BY <1>1, <1>2, <1>3, <1>5 DEF StatusAnswered
<1>6. ASSUME NEW f \in Fetches, Settle(f) PROVE Settled'
  <2>1. CASE Sets(f)
    <3>1. f \in LiveIn(fetches)
      BY <1>6, <2>1 DEF Settle, Sets, LiveIn
    <3>2. fetches[f].about = screen
      BY <3>1, LiveRestated DEF IInv, LiveFor
    <3>3. PICK answer \in Answers : panel' = Outcome(f, answer)
      BY <1>6, <2>1 DEF Settle
    <3>4. QED
      BY <1>6, <3>2, <3>3 DEF Settle, Settled, Outcome
  <2>2. CASE ~Sets(f)
    BY <1>2, <1>6, <2>2 DEF Settle
  <2>3. QED
    BY <2>1, <2>2
<1>7. QED
  BY <1>2, <1>3, <1>4, <1>5, <1>6 DEF Next, Answered, LogOut, Reload, Load, LogoutAnswered, vars

\* What the fetches and the panel amount to.
Seen == [state |-> panel.state, about |-> IF panel.state = "none" THEN Start ELSE screen]

LEMMA SeenIsView == VInv => [state |-> panel.state, about |-> About] = Seen
<1> SUFFICES ASSUME VInv PROVE About = IF panel.state = "none" THEN Start ELSE screen
  BY DEF Seen
<1>1. CASE panel.state = "none"
  BY <1>1 DEF About
<1>2. CASE panel.state = "loading"
  <2>1. PICK f \in Live : Live = {f} /\ fetches[f].about = screen
    BY <1>2 DEF VInv, IInv, LoadingWaits
  <2>2. (CHOOSE g \in Live : TRUE) = f
    BY <2>1
  <2>3. QED
    BY <1>2, <2>1, <2>2 DEF About
<1>3. CASE panel.state \notin {"none", "loading"}
  BY <1>3 DEF About, VInv, Settled
<1>4. QED
  BY <1>1, <1>2, <1>3

\* What a step of the application is to who looks at it.
ViewTurn(s) ==
    /\ s # screen \/ Seen = View!Blank
    /\ screen' = s
    /\ Seen' = IF s.kind = "logs" THEN View!Blank ELSE [state |-> "loading", about |-> s]

ViewLearn ==
    /\ Seen.state = "loading"
    /\ \E o \in {"loaded", "forbidden", "unavailable"} : Seen' = [state |-> o, about |-> Seen.about]
    /\ screen' = screen

ViewLeave == screen' = Start /\ Seen' = View!Blank

LEMMA MountTurns ==
    ASSUME NEW s \in Screens, Mount(s), s # screen \/ Seen = View!Blank
    PROVE  ViewTurn(s)
<1>1. CASE s.kind = "logs"
  BY <1>1, MountPanel, ConstantsTyped DEF ViewTurn, Seen, View!Blank
<1>2. CASE s.kind # "logs"
  BY <1>2, MountPanel, ConstantsTyped DEF ViewTurn, Seen
<1>3. QED
  BY <1>1, <1>2

LEMMA ViewStep ==
    ASSUME VInv, [Next]_vars
    PROVE  (\E s \in Screens : ViewTurn(s)) \/ ViewLearn \/ ViewLeave \/ UNCHANGED <<screen, Seen>>
<1> DEFINE Goal == (\E s \in Screens : ViewTurn(s)) \/ ViewLearn \/ ViewLeave \/ UNCHANGED <<screen, Seen>>
<1>0. Seen = View!Blank <=> panel.state = "none"
  BY DEF Seen, View!Blank
<1>1. ASSUME UNCHANGED <<screen, panel>> PROVE Goal
  BY <1>1 DEF Seen
<1>2. ASSUME NEW s \in Clicks(screen), Click(s) PROVE Goal
  <2>1. s \in Screens /\ Identity(s) # Identity(screen)
    BY <1>2, ClicksRemount, ClicksAreScreens, TypeRestated DEF Click, VInv, IInv
  <2>2. ViewTurn(s)
    BY <1>2, <2>1, MountTurns DEF Click
  <2>3. QED
    BY <2>1, <2>2
<1>3. ASSUME screen' = Start, panel' = NoPanel PROVE Goal
  BY <1>3, ConstantsTyped DEF ViewLeave, Seen, View!Blank
<1>4. CASE StatusAnswered
  <2>1. ASSUME page # "in", Mount(Start) PROVE Goal
    <3>1. Seen = View!Blank
      BY <1>0, <2>1 DEF VInv, Outside
    <3>2. ViewTurn(Start)
      BY <2>1, <3>1, MountTurns, ConstantsTyped
    <3>3. QED
      BY <3>2, ConstantsTyped
  <2>2. QED
    BY <1>1, <1>3, <1>4, <2>1 DEF StatusAnswered
<1>5. ASSUME NEW f \in Fetches, Settle(f) PROVE Goal
  <2>1. CASE panel.state = "loading"
    <3>1. CASE Sets(f)
      <4>1. PICK answer \in Answers : panel' = Outcome(f, answer)
        BY <1>5, <3>1 DEF Settle
      <4>2. panel'.state \in {"loaded", "forbidden", "unavailable"} /\ screen' = screen
        BY <1>5, <4>1 DEF Outcome, Settle
      <4>3. ViewLearn
        BY <2>1, <4>2 DEF ViewLearn, Seen
      <4>4. QED
        BY <4>3
    <3>2. CASE ~Sets(f)
      BY <1>1, <1>5, <3>2 DEF Settle
    <3>3. QED
      BY <3>1, <3>2
  <2>2. CASE panel.state # "loading"
    BY <1>1, <1>5, <2>2, SettleSets DEF Settle, VInv
  <2>3. QED
    BY <2>1, <2>2
<1>6. QED
  BY <1>1, <1>2, <1>3, <1>4, <1>5 DEF Next, Answered, LogOut, Reload, Load, LogoutAnswered, vars

\* The application, with all it has under way, is one view that asks once and
\* shows the one answer.
THEOREM FrontImplementsView == Spec => ImplementsView
<1> DEFINE Mapped == [state |-> panel.state, about |-> About]
<1>1. Init => VInv
  BY FrontInit, ConstantsTyped DEF Init, VInv, Outside, Settled
<1>2. VInv /\ [Next]_vars => VInv'
  BY FrontStep, OutsideStep, SettledStep DEF VInv
<1>3. VInv => Mapped = Seen
  BY SeenIsView
<1>4. (VInv => Mapped = Seen)'
  BY <1>3, PTL
<1>5. Init => View!ViewInit
  <2> SUFFICES ASSUME Init PROVE View!ViewInit
    OBVIOUS
  <2>1. screen = Start /\ panel.state = "none"
    BY ConstantsTyped DEF Init
  <2>2. QED
    BY <1>1, <1>3, <2>1 DEF View!ViewInit, View!Blank, Seen
<1>6. VInv /\ VInv' /\ [Next]_vars => [View!ViewNext]_View!viewVars
  <2> SUFFICES ASSUME VInv, VInv', [Next]_vars PROVE [View!ViewNext]_View!viewVars
    OBVIOUS
  <2>1. Mapped = Seen /\ Mapped' = Seen'
    BY <1>3, <1>4
  <2> HIDE DEF Mapped
  <2>2. ASSUME NEW s \in Screens, ViewTurn(s) PROVE View!Turn(s)
    BY <2>1, <2>2 DEF ViewTurn, View!Turn, Mapped
  <2>3. ViewLearn => View!Learn
    BY <2>1 DEF ViewLearn, View!Learn, Mapped
  <2>4. ViewLeave => View!Leave
    BY <2>1 DEF ViewLeave, View!Leave, Mapped
  <2>5. UNCHANGED <<screen, Seen>> => UNCHANGED View!viewVars
    BY <2>1 DEF View!viewVars, Mapped
  <2>6. QED
    BY <2>2, <2>3, <2>4, <2>5, ViewStep DEF View!ViewNext
<1>7. QED
  BY <1>1, <1>2, <1>5, <1>6, PTL DEF Spec, ImplementsView, View!ViewSpec

============================================================================
