----------------------------- MODULE MCCallers ------------------------------
(***************************************************************************)
(* The two ways a caller is told apart, side by side for TLC: by the token *)
(* of its session (Sessions) and by the header of its request (Kanban).    *)
(* They share the clock and nothing else, so that only one of them leaves  *)
(* its initial state in a behaviour.                                       *)
(***************************************************************************)
EXTENDS MCSessions, Kanban

\* An act, a switch of user and another act.
Switch == {<<Notify("act"), Notify("auth"), Ask("act")>>}

\* Readings that reconcile and readings that do not.
SomeReadings == {<<1, 0, 1>>, <<1, 0, 0>>, <<0, 1, 0>>}

\* Without BadMacs nothing tells the accounts, nor the URIs, apart.
Alike == Permutations({google, github}) \cup Permutations({here, there})

boards == <<stamps, relay, spent, refused>>

SessionsIdle ==
    /\ \A c \in DcrClients : registered[c] = None
    /\ states = {} /\ \A s \in SessionIds : session[s] = NoSession

BoardsIdle == relay = {} /\ refused = None /\ \A budget \in Budgets : spent[budget] = <<>>

CallersInit == Init /\ BoardInit

CallersNext ==
    \/ BoardsIdle /\ Next /\ UNCHANGED boards
    \/ SessionsIdle /\ BoardNext /\ UNCHANGED <<tokens, hub>>

CallersSpec == CallersInit /\ [][CallersNext]_<<vars, boards>>
=============================================================================
