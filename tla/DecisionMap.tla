---------------------------- MODULE DecisionMap ----------------------------
(***************************************************************************)
(* What the remembered-decision file promises: one map from exact hosts to *)
(* decisions that every operation changes at once, whoever else is at      *)
(* work.  survivors holds the maps a power loss may leave behind; settling *)
(* (the directory sync) leaves only the current one.                       *)
(***************************************************************************)
CONSTANT Host

VARIABLES map, survivors

\* RememberedDecision, and "none" for a host without an entry.
Remembered == {"none", "allow", "deny"}

Documents == [Host -> Remembered]

\* The operations that change the document.
Remembers == [kind : {"remember"}, host : Host, value : {"allow", "deny"}]
Forgets   == [kind : {"forget"}, host : Host]
Updates   == Remembers \cup Forgets \cup {[kind |-> "clear"]}

\* The document an operation makes of document d.
Effect(op, d) ==
    [h \in Host |->
        IF op.kind = "remember" /\ op.host = h THEN op.value
        ELSE IF op.kind = "clear" \/ (op.kind = "forget" /\ op.host = h)
            THEN "none"
            ELSE d[h]]

Init == map \in Documents /\ survivors = {map}

Update(op) ==
    /\ map' = Effect(op, map)
    /\ survivors' = survivors \cup {map'}

Settle == survivors' = {map} /\ UNCHANGED map

PowerLoss ==
    /\ map' \in survivors
    /\ survivors' = {map'}

Next == (\E op \in Updates : Update(op)) \/ Settle \/ PowerLoss

Spec == Init /\ [][Next]_<<map, survivors>>

=============================================================================
