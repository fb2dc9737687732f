---------------------------- MODULE FrontSafety ----------------------------
(***************************************************************************)
(* What the views promise whoever looks at them.                           *)
(***************************************************************************)
EXTENDS FrontEnd

\* The data on the screen is what was fetched for this namespace, kind and name
\* (ResourceList.tsx: "Callers remount this component (via a key ...)").
ShownMatches == panel.state = "loaded" => panel.about = screen

Live == {f \in Fetches : fetches[f].state = "pending" /\ Sets(f)}

\* A view that says "Loading" has exactly one fetch that will tell it more, and
\* one that has settled has none (the cleanup of every view's effect).
LoadingWaits ==
    /\ panel.state = "loading" =>
         \E f \in Live : Live = {f} /\ fetches[f].about = screen
    /\ panel.state # "loading" => Live = {}

\* What a view shows changes by a click or a page load only, never by an answer
\* that comes late (the cancelled flag of every view's effect).
SettledStays ==
    [][panel.state \notin {"none", "loading"} /\ screen' = screen /\ page' = page
         => panel' = panel]_vars

\* What a view is about: the question that is still open, or the one answered.
About ==
    CASE panel.state = "none" -> Start
      [] panel.state = "loading" -> fetches[CHOOSE f \in Live : TRUE].about
      [] OTHER -> panel.about

View == INSTANCE OneView WITH
    Quiet <- {s \in Screens : s.kind = "logs"}, Outcomes <- {"loaded", "forbidden", "unavailable"},
    view <- [state |-> panel.state, about |-> About]

\* Behind any number of fetches under way, of answers that come late and in any
\* order, and of effects that run twice, every view asks once and shows the one
\* answer to what it asked (the cancelled flags and the keys together).
ImplementsView == View!ViewSpec

\* Who stops clicking sees an outcome, whatever the server or the network does
\* (the catch of every view's effect).
Settles ==
    []<>(panel.state # "loading")
    \/ []<><<\E s \in Clicks(screen) : Click(s)>>_vars
    \/ []<><<Reload>>_vars

\* docs/spec/02-product-and-scope.md:25, "Clear empty, loading, forbidden,
\* expired-session, and unavailable-upstream states": a 401 is not shown as an
\* upstream that is unavailable.
ExpiryShown == panel.why = "unauthorized" => panel.state # "unavailable"

\* docs/security-test-matrix.md:59, the "API client maps 401/403/5xx/network
\* failure to the correct UI state": App says "Loading" only while a request for
\* the session's status is under way.
AppNotStuck == page = "loading" => status > 0
===========================================================================
