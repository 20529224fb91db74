---------------------------- MODULE DashboardPoll ----------------------------
(***************************************************************************)
(* The auto-refresh of the dashboard (static/poll.js): every tick of the   *)
(* interval fetches the page again, without waiting for earlier fetches,   *)
(* and swaps the region it found when it started for the one in the        *)
(* answer.                                                                 *)
(*                                                                         *)
(* What the dashboard shows is a version of the databases' state; pages    *)
(* that lack the region (the login page) and failed fetches are answers    *)
(* without a version.  A region is its place in the document: a fetch      *)
(* holds the one shown now, or one that was swapped out since.             *)
(***************************************************************************)
EXTENDS Naturals

CONSTANTS Fetches,    \* fetches that the browser may have under way at once
          MaxVersion, \* a bound on the changes of the databases
          MaxLost     \* a bound on the fetches that bring no region

ASSUME PollBounds == MaxVersion \in Nat /\ MaxLost \in Nat

VARIABLES
    version,  \* the databases' state
    shown,    \* the version in the region that is shown
    paused,   \* the toggle, in localStorage
    fetch,    \* "idle", "sent", "answered", or "empty": no region in the answer
    attached, \* the fetches whose currentRegion is still in the document
    answer,   \* the version a fetch was answered with
    lost      \* fetches that brought no region

pollVars == <<version, shown, paused, fetch, attached, answer, lost>>

\* The page as it was served.
PollInit ==
    /\ version = 0
    /\ shown = 0
    /\ paused \in BOOLEAN
    /\ fetch = [f \in Fetches |-> "idle"]
    /\ attached = {}
    /\ answer = [f \in Fetches |-> 0]
    /\ lost = 0

-----------------------------------------------------------------------------

\* refresh, on a tick of setInterval.
Refresh(f) ==
    /\ ~paused
    /\ fetch[f] = "idle"
    /\ fetch' = [fetch EXCEPT ![f] = "sent"]
    /\ attached' = attached \cup {f}
    /\ UNCHANGED <<version, shown, paused, answer, lost>>

\* The server renders the dashboard.
Answer(f) ==
    /\ fetch[f] = "sent"
    /\ fetch' = [fetch EXCEPT ![f] = "answered"]
    /\ answer' = [answer EXCEPT ![f] = version]
    /\ UNCHANGED <<version, shown, paused, attached, lost>>

\* The session has expired and the login page answers, or the fetch fails.
Lose(f) ==
    /\ fetch[f] = "sent"
    /\ lost < MaxLost
    /\ lost' = lost + 1
    /\ fetch' = [fetch EXCEPT ![f] = "empty"]
    /\ UNCHANGED <<version, shown, paused, attached, answer>>

\* A bug: the region is looked up when the answer is there.
SwappedOutNever(f) == FALSE

\* A bug: an answer is dropped when another refresh has started.
SwappedOutByOthers(f) == f \notin attached \/ \E g \in Fetches \ {f} : fetch[g] = "sent"

\* currentRegion.replaceWith does nothing for a region that has no parent.
SwappedOut(f) == f \notin attached

Ended(f) == fetch' = [fetch EXCEPT ![f] = "idle"]

\* The answer has no region, or its place is no longer in the document.
Discard(f) ==
    /\ fetch[f] = "empty" \/ (fetch[f] = "answered" /\ SwappedOut(f))
    /\ Ended(f)
    /\ attached' = attached \ {f}
    /\ UNCHANGED <<version, shown, paused, answer, lost>>

\* currentRegion.replaceWith(nextRegion): the other fetches' region is gone.
Swap(f) ==
    /\ fetch[f] = "answered" /\ ~SwappedOut(f)
    /\ Ended(f)
    /\ shown' = answer[f]
    /\ attached' = {}
    /\ UNCHANGED <<version, paused, answer, lost>>

\* The checkbox #auto-refresh.
Toggle ==
    /\ paused' = ~paused
    /\ UNCHANGED <<version, shown, fetch, attached, answer, lost>>

\* The databases change.
Change ==
    /\ version < MaxVersion
    /\ version' = version + 1
    /\ UNCHANGED <<shown, paused, fetch, attached, answer, lost>>

PollNext ==
    \/ \E f \in Fetches : Refresh(f)
    \/ \E f \in Fetches : Answer(f)
    \/ \E f \in Fetches : Lose(f)
    \/ \E f \in Fetches : Discard(f)
    \/ \E f \in Fetches : Swap(f)
    \/ Toggle
    \/ Change

PollSpec == PollInit /\ [][PollNext]_pollVars

\* The interval ticks on, the server answers what reaches it and the browser
\* runs the handlers of what has arrived.  Nobody has to touch the toggle, and
\* some fetches, not all of them for ever, bring nothing.
PollFairness ==
    /\ WF_pollVars(\E f \in Fetches : Refresh(f))
    /\ \A f \in Fetches : WF_pollVars(Answer(f)) /\ WF_pollVars(Discard(f)) /\ WF_pollVars(Swap(f))

FairPollSpec == PollSpec /\ PollFairness

-----------------------------------------------------------------------------
(* Properties                                                              *)

\* Answers may arrive in any order, and the page never goes back to an earlier
\* state of the databases than it showed (refresh's currentRegion).
NeverGoesBack == [][shown' >= shown]_pollVars

\* Unless it is paused, the page catches up with the databases, whatever was
\* dropped for having come after another answer.
CatchesUp == <>[](version = MaxVersion /\ ~paused) => <>[](shown = MaxVersion)
=============================================================================
