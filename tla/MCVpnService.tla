---------------------------- MODULE MCVpnService ----------------------------
(***************************************************************************)
(* The service for TLC.  Of the names with a ':', "addr:port" is cut to    *)
(* "addr" and a number, and "v6" to a piece that has no number behind it.  *)
(***************************************************************************)
EXTENDS VpnService

MCKeyOf == [c \in Colons |-> IF c = "addr:port" THEN "addr" ELSE "app"]
MCNumOf == [c \in Colons |-> IF c = "addr:port" THEN 80 ELSE 0]

None == [calls |-> 0, updates |-> 0, listeners |-> 0, kills |-> 0, destroys |-> 0]

(* What the life cycle meets: a service that is destroyed under its        *)
(* thread, a listener that is set again.                                   *)
Orphaned == [None EXCEPT !.calls = 3, !.listeners = 1, !.destroys = 1]
Replaced == [None EXCEPT !.calls = 3, !.listeners = 2]

(* What the settings meet: a START, which calls init again; updates over   *)
(* three processes.                                                        *)
Started == [None EXCEPT !.calls = 1, !.updates = 2, !.kills = 1]
Killed == [None EXCEPT !.updates = 2, !.kills = 2]

Each == {Orphaned, Replaced, Started, Killed}

TwoRequests == {[None EXCEPT !.calls = 2, !.listeners = 1]}
=============================================================================
