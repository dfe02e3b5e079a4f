--------------------------- MODULE SearchService ---------------------------
(***************************************************************************)
(* What the engine promises the application about a search, without         *)
(* threads, flags or channels.                                              *)
(*                                                                          *)
(*   - at most one search runs at a time;                                   *)
(*   - a search ends once, with an answer or as a failure, and the          *)
(*     application is told which;                                           *)
(*   - a search that has no limit of its own, or that still ponders, is not *)
(*     answered before the application has asked it to stop;                *)
(*   - a search that was asked to stop ends.                                *)
(***************************************************************************)
EXTENDS Naturals

CONSTANT MaxSearches

Search == 1..MaxSearches

VARIABLES
  started,   \* number of searches started
  status,    \* "unused", "running", "answered" or "failed"
  endless,   \* the search may not end unless asked
  stopped,   \* the application asked it to stop
  told       \* "nothing", "result" or "failed"

svars == <<started, status, endless, stopped, told>>

Init ==
  /\ started = 0
  /\ status = [s \in Search |-> "unused"]
  /\ endless = [s \in Search |-> FALSE]
  /\ stopped = [s \in Search |-> FALSE]
  /\ told = [s \in Search |-> "nothing"]

Running(s) == status[s] = "running"

Start(e) ==
  LET s == started + 1 IN
  /\ s \in Search
  /\ ~ \E t \in Search : Running(t)
  /\ started' = s
  /\ status' = [status EXCEPT ![s] = "running"]
  /\ endless' = [endless EXCEPT ![s] = e]
  /\ UNCHANGED <<stopped, told>>

\* A stop may be asked of any search that was started.  For one that has
\* ended it has no effect.
AskStop(s) ==
  /\ status[s] # "unused"
  /\ stopped' = [stopped EXCEPT ![s] = TRUE]
  /\ UNCHANGED <<started, status, endless, told>>

PonderHit(s) ==
  /\ status[s] # "unused"
  /\ endless' = [endless EXCEPT ![s] = FALSE]
  /\ UNCHANGED <<started, status, stopped, told>>

End(s) ==
  /\ Running(s)
  /\ \/ (endless[s] => stopped[s]) /\ status' = [status EXCEPT ![s] = "answered"]
     \/ status' = [status EXCEPT ![s] = "failed"]
  /\ UNCHANGED <<started, endless, stopped, told>>

\* The application is told; waiting for the answer gives the search up, as
\* a stop does.
Tell(s) ==
  /\ told[s] = "nothing"
  /\ \/ status[s] = "answered" /\ told' = [told EXCEPT ![s] = "result"]
     \/ status[s] = "failed" /\ told' = [told EXCEPT ![s] = "failed"]
  /\ stopped' \in {stopped, [stopped EXCEPT ![s] = TRUE]}
  /\ UNCHANGED <<started, status, endless>>

Next ==
  \/ \E e \in BOOLEAN : Start(e)
  \/ \E s \in Search : AskStop(s) \/ PonderHit(s) \/ End(s) \/ Tell(s)

Safe == Init /\ [][Next]_svars

Spec == Safe /\ \A s \in Search : WF_svars(stopped[s] /\ End(s))
=============================================================================
