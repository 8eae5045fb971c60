--------------------------- MODULE MCDownloadQueue ---------------------------
(* Instances of DownloadQueue for TLC.                                       *)
(*                                                                           *)
(* Who takes part is chosen at the start: an actor that does not is done     *)
(* from the first, and faults that do not come are counted as past.          *)
EXTENDS DownloadQueue

MCRows == 1..2
MCTransfers == 1..3

Scenario(adders, operators, budget) ==
    /\ pc = [x \in Adders |-> IF x \in adders THEN "idle" ELSE "done"]
    /\ op = [o \in Operators |-> IF o \in operators THEN "idle" ELSE "done"]
    /\ faults = MaxFaults - budget

\* Two grabs race for the item, with one fault; or one grab meets one operator,
\* with two; or two operators, with none.
OneOf(actors) == {CHOOSE a \in actors : TRUE}
MCInit ==
    /\ names = [r \in Rows |-> None]
    /\ state = [r \in Rows |-> "queued"]
    /\ removed = {} /\ handed = {}
    /\ transfer = [t \in Transfers |-> "none"]
    /\ held = [x \in Adders |-> None]
    /\ told = [x \in Adders |-> None]
    /\ mine = [x \in Adders |-> None]
    /\ request = [o \in Operators |-> None]
    /\ target = [o \in Operators |-> None]
    /\ sync = "idle" /\ at = None /\ seen = None
    /\ todo = {} /\ finished = {}
    /\ stranded = {}
    /\ \/ Scenario(Adders, {}, 1)
       \/ Scenario(OneOf(Adders), OneOf(Operators), 2)
       \/ Scenario(OneOf(Adders), Operators, 0)

MCSpec == MCInit /\ [][Next]_vars /\ Fairness
==============================================================================
