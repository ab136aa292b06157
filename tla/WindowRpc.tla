----------------------------- MODULE WindowRpc -----------------------------
(***************************************************************************)
(* What HERD promises its clients: requests are executed exactly once, and *)
(* a client has a window of them outstanding.  A call is named by its      *)
(* client, its worker and the window slot it uses there.                   *)
(***************************************************************************)
EXTENDS FiniteSets, Naturals

CONSTANTS Clients, Workers, Window

Slots == 0..(Window - 1)

VARIABLE call    \* call[c][w][s]: "idle", "sent" or "done" (executed, not yet collected)

Open(c) == {ws \in Workers \X Slots : call[c][ws[1]][ws[2]] # "idle"}

Init == call = [c \in Clients |-> [w \in Workers |-> [s \in Slots |-> "idle"]]]

\* A client uses an idle slot, while its window is not full.
Send(c, w, s) ==
    /\ call[c][w][s] = "idle"
    /\ Cardinality(Open(c)) < Window
    /\ call' = [call EXCEPT ![c][w][s] = "sent"]

\* A worker executes a batch, at most one request of each client.
Execute(w, clts) ==
    \E slot \in [clts -> Slots] :
        /\ \A c \in clts : call[c][w][slot[c]] = "sent"
        /\ call' = [c \in Clients |->
                      IF c \in clts THEN [call[c] EXCEPT ![w][slot[c]] = "done"] ELSE call[c]]

\* A client collects the answers to a whole window.
Collect(c) ==
    /\ Cardinality(Open(c)) = Window
    /\ \A ws \in Open(c) : call[c][ws[1]][ws[2]] = "done"
    /\ call' = [call EXCEPT ![c] = [w \in Workers |-> [s \in Slots |-> "idle"]]]

Next ==
    \/ \E c \in Clients, w \in Workers, s \in Slots : Send(c, w, s)
    \/ \E w \in Workers, clts \in SUBSET Clients : Execute(w, clts)
    \/ \E c \in Clients : Collect(c)

Spec == Init /\ [][Next]_call

=============================================================================
