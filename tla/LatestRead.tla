---------------------------- MODULE LatestRead ----------------------------
(***************************************************************************)
(* What a screen of the admin panel that reads from the API promises:      *)
(* requests are numbered, and an answer may reach the screen only while    *)
(* nothing newer has been asked.  Nothing is said of requests in flight,   *)
(* failures, keys or unmounting; FetchHook is shown to implement this.     *)
(***************************************************************************)
EXTENDS Naturals

VARIABLES asked,   \* how many requests the screen has made
          shown    \* the request whose answer is on the screen, 0 when none

vars == <<asked, shown>>

Init == asked = 0 /\ shown = 0

(* A new request: the old answer may stay on the screen or be cleared. *)
Ask == asked' = asked + 1 /\ shown' \in {0, shown}

(* The answer of the newest request is put on the screen. *)
Show == asked > 0 /\ shown' = asked /\ UNCHANGED asked

(* The screen is emptied: a failed read, nothing selected, the page left. *)
Clear == shown' = 0 /\ UNCHANGED asked

Next == Ask \/ Show \/ Clear

Spec == Init /\ [][Next]_vars
=============================================================================
