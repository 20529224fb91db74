------------------------------- MODULE MCPages -------------------------------
(* Small instances of Search and KeyBrowser: a behaviour is one view of one  *)
(* of the two pages, and leaves the variables of the other one alone.        *)
EXTENDS Search, KeyBrowser

VARIABLE page

\* A database with three namespaces, then one with a single namespace.
ThreeThenOne == <<3, 1>>
FourKeys == 1 .. 4

PagesInit ==
  \/ page = "search" /\ Init /\ BrowserInit /\ stayed = {}
  \/ page = "keys" /\ BrowserInit /\ Init /\ matches = [s \in Slots |-> 0]

PagesNext ==
  \/ page = "search" /\ Next /\ UNCHANGED <<browserVars, page>>
  \/ page = "keys" /\ BrowserNext /\ UNCHANGED <<vars, page>>

PagesSpec == PagesInit /\ [][PagesNext]_<<vars, browserVars, page>>
=============================================================================
